---- MODULE Spec2Model ----
(***************************************************************************)
(* Traffic signal simulator: the phase controller                          *)
(* (TrafficSignalController.js), the demand calculator                     *)
(* (TrafficCalculator.js), the message validation (MessageHandler.js), the *)
(* client registry (ClientManager.js) and the TCP server loops (server.js).*)
(*                                                                         *)
(* Numbers.  Vehicle counts are integers.  Demands are multiples of 0.5    *)
(* (weight 2.5 for heavy vehicles), so every demand is kept in half-units: *)
(* the model value d stands for the JavaScript number d/2.  JavaScript     *)
(* values handed to parseInt()/Number() are records [t, n]: t = "num" with *)
(* n the value in half-units, or t = "nan" for anything that converts to   *)
(* NaN (undefined, "abc", {}).  Times are milliseconds.                    *)
(***************************************************************************)
EXTENDS Integers, Sequences, FiniteSets, TLC

(* ---------------------------- constants.js ----------------------------- *)

GREEN == "GREEN"
YELLOW == "YELLOW"
RED == "RED"
SIGNAL_STATES == {GREEN, YELLOW, RED}

ROUTES == <<"A", "B", "C", "D">>
Routes == {ROUTES[i] : i \in 1..Len(ROUTES)}

PHASE_AC_GREEN == "PHASE_AC_GREEN"
PHASE_AC_YELLOW == "PHASE_AC_YELLOW"
PHASE_BD_GREEN == "PHASE_BD_GREEN"
PHASE_BD_YELLOW == "PHASE_BD_YELLOW"
PHASES == {PHASE_AC_GREEN, PHASE_AC_YELLOW, PHASE_BD_GREEN, PHASE_BD_YELLOW}

MIN_GREEN == 5
MAX_GREEN == 60
YELLOW_DURATION == 3

\* TRAFFIC_WEIGHTS, in half-units: 1 -> 2, 2.5 -> 5
NORMAL_VEHICLE == 2
HEAVY_VEHICLE == 5

\* the 0.8 damping factor of calculateGreenDuration, as a fraction
DampNum == 4
DampDen == 5

(* ------------------------------- bounds -------------------------------- *)

\* the clock stops at MaxNow milliseconds
MaxNow == 16000
\* clock steps between two handler runs, in milliseconds
TickSteps == {500, 1000}
\* the calculator is called with demands up to MaxDemand half-units
MaxDemand == 4
\* stored samples range over 0..MaxVehicles vehicles and 0..MaxHeavy heavy
\* vehicles per route
MaxVehicles == 3
MaxHeavy == 2
\* the ids of the connections accepted in a run
ClientIds == {1, 2}
LastClientId == CHOOSE m \in ClientIds : \A id \in ClientIds : id <= m

(* --------------------------- JavaScript values -------------------------- *)

JSNum(h) == [t |-> "num", n |-> h]
JSNaN == [t |-> "nan", n |-> 0]
\* the value of a missing field
JSUndefined == [t |-> "undefined", n |-> 0]

\* integer division truncating toward zero
TruncDiv(a, b) == IF a >= 0 THEN a \div b ELSE -((-a) \div b)

\* parseInt(x) || 0 : the integer part, 0 for NaN
parseIntOr0(x) == IF x.t = "num" THEN TruncDiv(x.n, 2) ELSE 0

\* Number(x) || 0, in half-units
NumberOr0(x) == IF x.t = "num" THEN x.n ELSE 0

Max(a, b) == IF a >= b THEN a ELSE b

\* Math.round(p / q) for q > 0: the nearest integer, halves toward +infinity
MathRound(p, q) == (2 * p + q) \div (2 * q)

(* ------------------------- TrafficCalculator.js ------------------------- *)

\* calculateDemand counting a heavy vehicle as a normal one
calculateDemand_heavyAsNormal(vehicleCount, heavyVehicleCount) ==
  vehicleCount * NORMAL_VEHICLE + heavyVehicleCount * NORMAL_VEHICLE

\* calculateDemand(vehicleCount, heavyVehicleCount), result in half-units
calculateDemand(vehicleCount, heavyVehicleCount) ==
  vehicleCount * NORMAL_VEHICLE + heavyVehicleCount * HEAVY_VEHICLE

\* calculateAllDemands(trafficData)
calculateAllDemands(td) ==
  [r \in Routes |-> calculateDemand(td[r].vehicles, td[r].heavyVehicles)]

\* calculateGreenDuration without the clamp of the demands to 0
calculateGreenDuration_noClamp(demandA, demandB, demandC, demandD, phase) ==
  LET dA == NumberOr0(demandA)
      dB == NumberOr0(demandB)
      dC == NumberOr0(demandC)
      dD == NumberOr0(demandD)
      ac == phase \in {PHASE_AC_GREEN, PHASE_AC_YELLOW}
      pair1Demand == IF ac THEN dA + dC ELSE dB + dD
      pair2Demand == IF ac THEN dB + dD ELSE dA + dC
      totalDemand == pair1Demand + pair2Demand
      timeRange == MAX_GREEN - MIN_GREEN
  IN  IF totalDemand = 0
        THEN MIN_GREEN
        ELSE IF totalDemand > 0
          THEN MathRound(MIN_GREEN * totalDemand * DampDen
                           + timeRange * pair1Demand * DampNum,
                         totalDemand * DampDen)
          ELSE MathRound(-(MIN_GREEN * totalDemand * DampDen
                           + timeRange * pair1Demand * DampNum),
                         -(totalDemand * DampDen))

\* calculateGreenDuration without the 0.8 damping factor
calculateGreenDuration_noDamping(demandA, demandB, demandC, demandD, phase) ==
  LET dA == Max(0, NumberOr0(demandA))
      dB == Max(0, NumberOr0(demandB))
      dC == Max(0, NumberOr0(demandC))
      dD == Max(0, NumberOr0(demandD))
      ac == phase \in {PHASE_AC_GREEN, PHASE_AC_YELLOW}
      pair1Demand == IF ac THEN dA + dC ELSE dB + dD
      pair2Demand == IF ac THEN dB + dD ELSE dA + dC
      totalDemand == pair1Demand + pair2Demand
      timeRange == MAX_GREEN - MIN_GREEN
  IN  IF totalDemand = 0
        THEN MIN_GREEN
        ELSE MathRound(MIN_GREEN * totalDemand + timeRange * pair1Demand,
                       totalDemand)

\* calculateGreenDuration without the MIN_GREEN offset
calculateGreenDuration_noOffset(demandA, demandB, demandC, demandD, phase) ==
  LET dA == Max(0, NumberOr0(demandA))
      dB == Max(0, NumberOr0(demandB))
      dC == Max(0, NumberOr0(demandC))
      dD == Max(0, NumberOr0(demandD))
      ac == phase \in {PHASE_AC_GREEN, PHASE_AC_YELLOW}
      pair1Demand == IF ac THEN dA + dC ELSE dB + dD
      pair2Demand == IF ac THEN dB + dD ELSE dA + dC
      totalDemand == pair1Demand + pair2Demand
      timeRange == MAX_GREEN - MIN_GREEN
  IN  IF totalDemand = 0
        THEN MIN_GREEN
        ELSE MathRound(timeRange * pair1Demand * DampNum, totalDemand * DampDen)

\* calculateGreenDuration giving each pair half of the range when there is
\* no demand at all
calculateGreenDuration_zeroIsEqualShare(demandA, demandB, demandC, demandD, phase) ==
  LET dA == Max(0, NumberOr0(demandA))
      dB == Max(0, NumberOr0(demandB))
      dC == Max(0, NumberOr0(demandC))
      dD == Max(0, NumberOr0(demandD))
      ac == phase \in {PHASE_AC_GREEN, PHASE_AC_YELLOW}
      pair1Demand == IF ac THEN dA + dC ELSE dB + dD
      pair2Demand == IF ac THEN dB + dD ELSE dA + dC
      totalDemand == pair1Demand + pair2Demand
      timeRange == MAX_GREEN - MIN_GREEN
  IN  IF totalDemand = 0
        THEN MathRound(MIN_GREEN * 2 * DampDen + timeRange * DampNum, 2 * DampDen)
        ELSE MathRound(MIN_GREEN * totalDemand * DampDen
                         + timeRange * pair1Demand * DampNum,
                       totalDemand * DampDen)

\* calculateGreenDuration(demandA, demandB, demandC, demandD, phase):
\* the arguments are JavaScript values, the result is in seconds
calculateGreenDuration(demandA, demandB, demandC, demandD, phase) ==
  LET dA == Max(0, NumberOr0(demandA))
      dB == Max(0, NumberOr0(demandB))
      dC == Max(0, NumberOr0(demandC))
      dD == Max(0, NumberOr0(demandD))
      ac == phase \in {PHASE_AC_GREEN, PHASE_AC_YELLOW}
      pair1Demand == IF ac THEN dA + dC ELSE dB + dD
      pair2Demand == IF ac THEN dB + dD ELSE dA + dC
      totalDemand == pair1Demand + pair2Demand
      timeRange == MAX_GREEN - MIN_GREEN
  IN  IF totalDemand = 0
        THEN MIN_GREEN
        \* Math.round(MIN_GREEN + timeRange * (pair1/total) * 0.8)
        ELSE MathRound(MIN_GREEN * totalDemand * DampDen
                         + timeRange * pair1Demand * DampNum,
                       totalDemand * DampDen)

(* ---------------------- TrafficSignalController.js ---------------------- *)

VARIABLES
  signalState,           \* route -> color
  trafficData,           \* route -> [vehicles, heavyVehicles]
  currentPhase,
  phaseStartTime,        \* ms
  currentPhaseDuration,  \* seconds
  isInYellow,
  lastBroadcastState,    \* JSON.stringify(signalState) at the last broadcast
  now,                   \* Date.now(), ms
  ret,                   \* the last call and what it returned
  clients,               \* ClientManager.clients: id -> ClientConnection
  nextClientId,
  outbox,                \* id -> the frames the last handler run wrote to
                         \* that client's socket
  crashed,               \* an exception escaped an event handler
  calc,                  \* a call of calculateGreenDuration and its result
  pending,               \* the interval timers that expired and whose
                         \* callback did not run yet
  stream,                \* the text a client sends: all of it, how much of
                         \* it arrived in how many 'data' events, and the
                         \* lines handed to processClientMessage so far
  sockets                \* the broadcasts produced so far and, per client,
                         \* those written to its socket whose write callback
                         \* did not run yet and the last one that arrived

ctlVars == <<signalState, trafficData, currentPhase, phaseStartTime,
             currentPhaseDuration, isInYellow, lastBroadcastState>>
srvVars == <<clients, nextClientId, outbox, crashed>>
vars == <<signalState, trafficData, currentPhase, phaseStartTime,
          currentPhaseDuration, isInYellow, lastBroadcastState, now, ret,
          clients, nextClientId, outbox, crashed, calc, pending, stream,
          sockets>>

AllRed == [r \in Routes |-> RED]
NoTraffic == [r \in Routes |-> [vehicles |-> 0, heavyVehicles |-> 0]]

\* JSON.stringify(signalState): the colors in the object's key order A,B,C,D
JSONstringify(sig) == [i \in 1..Len(ROUTES) |-> sig[ROUTES[i]]]

\* applyPhaseSignals without the reset of all routes to RED
applyPhaseSignals_noReset(phase) ==
  [r \in Routes |->
     IF phase = PHASE_AC_GREEN /\ r \in {"A", "C"} THEN GREEN
     ELSE IF phase = PHASE_AC_YELLOW /\ r \in {"A", "C"} THEN YELLOW
     ELSE IF phase = PHASE_BD_GREEN /\ r \in {"B", "D"} THEN GREEN
     ELSE IF phase = PHASE_BD_YELLOW /\ r \in {"B", "D"} THEN YELLOW
     ELSE signalState[r]]

\* applyPhaseSignals(): all RED, then the pair of the phase gets its color
applyPhaseSignals(phase) ==
  [r \in Routes |->
     IF phase = PHASE_AC_GREEN /\ r \in {"A", "C"} THEN GREEN
     ELSE IF phase = PHASE_AC_YELLOW /\ r \in {"A", "C"} THEN YELLOW
     ELSE IF phase = PHASE_BD_GREEN /\ r \in {"B", "D"} THEN GREEN
     ELSE IF phase = PHASE_BD_YELLOW /\ r \in {"B", "D"} THEN YELLOW
     ELSE RED]

\* Math.round((Date.now() - phaseStartTime) / 1000)
elapsedTime(t, start) == MathRound(t - start, 1000)

\* executePhaseTransition leaving a green phase for the other pair's green
nextPhase_skipYellow(yellow, phase) ==
  IF yellow
    THEN IF phase = PHASE_AC_YELLOW THEN PHASE_BD_GREEN ELSE PHASE_AC_GREEN
    ELSE IF phase = PHASE_AC_GREEN THEN PHASE_BD_GREEN ELSE PHASE_AC_GREEN

\* executePhaseTransition giving the green back to A, C after every yellow
nextPhase_returnsToAC(yellow, phase) ==
  IF yellow
    THEN PHASE_AC_GREEN
    ELSE IF phase = PHASE_AC_GREEN THEN PHASE_AC_YELLOW ELSE PHASE_BD_YELLOW

\* the phase chosen by executePhaseTransition()
nextPhase(yellow, phase) ==
  IF yellow
    THEN IF phase = PHASE_AC_YELLOW THEN PHASE_BD_GREEN ELSE PHASE_AC_GREEN
    ELSE IF phase = PHASE_AC_GREEN THEN PHASE_AC_YELLOW ELSE PHASE_BD_YELLOW

\* executePhaseTransition handing calculateGreenDuration the phase it leaves
nextPhaseDuration_leavingPhase(yellow, phase, td) ==
  LET demands == calculateAllDemands(td)
  IN  IF yellow
        THEN calculateGreenDuration(JSNum(demands["A"]), JSNum(demands["B"]),
                                    JSNum(demands["C"]), JSNum(demands["D"]),
                                    phase)
        ELSE YELLOW_DURATION

\* the duration chosen by executePhaseTransition()
nextPhaseDuration(yellow, phase, td) ==
  LET demands == calculateAllDemands(td)
  IN  IF yellow
        THEN calculateGreenDuration(JSNum(demands["A"]), JSNum(demands["B"]),
                                    JSNum(demands["C"]), JSNum(demands["D"]),
                                    nextPhase(yellow, phase))
        ELSE YELLOW_DURATION

\* constructor
InitController ==
  /\ signalState = AllRed
  /\ trafficData = NoTraffic
  /\ currentPhase = PHASE_AC_GREEN
  /\ phaseStartTime = 0
  /\ currentPhaseDuration = MIN_GREEN
  /\ isInYellow = FALSE
  /\ lastBroadcastState = JSONstringify(AllRed)

\* executePhaseTransition not assigning the duration of a green phase
executePhaseTransition_keepsDuration ==
  /\ isInYellow' = ~isInYellow
  /\ currentPhase' = nextPhase(isInYellow, currentPhase)
  /\ currentPhaseDuration' = IF isInYellow THEN currentPhaseDuration
                                            ELSE YELLOW_DURATION
  /\ phaseStartTime' = now
  /\ signalState' = applyPhaseSignals(currentPhase')
  /\ UNCHANGED <<trafficData, lastBroadcastState>>

\* executePhaseTransition()
executePhaseTransition ==
  /\ isInYellow' = ~isInYellow
  /\ currentPhase' = nextPhase(isInYellow, currentPhase)
  /\ currentPhaseDuration' = nextPhaseDuration(isInYellow, currentPhase, trafficData)
  /\ phaseStartTime' = now
  /\ signalState' = applyPhaseSignals(currentPhase')
  /\ UNCHANGED <<trafficData, lastBroadcastState>>

\* updatePhase(): the returned value and the effect
updatePhaseValue == elapsedTime(now, phaseStartTime) >= currentPhaseDuration

updatePhase ==
  IF updatePhaseValue THEN executePhaseTransition ELSE UNCHANGED ctlVars

\* updateTrafficData(route, vehicles, heavyVehicles): the samples after the
\* call; it throws, changing nothing, for a route outside ROUTES
updateTrafficDataThrows(route) == route \notin Routes

\* updateTrafficData storing the sample for every route
updateTrafficData_allRoutes(td, route, vehicles, heavyVehicles) ==
  IF updateTrafficDataThrows(route)
    THEN td
    ELSE [r \in Routes |->
            [vehicles |-> Max(0, parseIntOr0(vehicles)),
             heavyVehicles |-> Max(0, parseIntOr0(heavyVehicles))]]

\* updateTrafficData adding the counts to the stored sample
updateTrafficData_accumulates(td, route, vehicles, heavyVehicles) ==
  IF updateTrafficDataThrows(route)
    THEN td
    ELSE [td EXCEPT ![route] =
            [vehicles |-> @.vehicles + Max(0, parseIntOr0(vehicles)),
             heavyVehicles |-> @.heavyVehicles + Max(0, parseIntOr0(heavyVehicles))]]

updateTrafficData(td, route, vehicles, heavyVehicles) ==
  IF updateTrafficDataThrows(route)
    THEN td
    ELSE [td EXCEPT ![route] =
            [vehicles |-> Max(0, parseIntOr0(vehicles)),
             heavyVehicles |-> Max(0, parseIntOr0(heavyVehicles))]]

\* hasStateChanged() comparing the colors with those of a red junction
\* instead of the marker
hasStateChangedValue_comparesWithAllRed ==
  JSONstringify(signalState) # JSONstringify(AllRed)

\* hasStateChanged(): the new marker and the returned value
hasStateChangedValue == JSONstringify(signalState) # lastBroadcastState

\* hasStateChanged not recording the colors it reports
hasStateChanged_keepsMarker ==
  /\ lastBroadcastState' = lastBroadcastState
  /\ UNCHANGED <<signalState, trafficData, currentPhase, phaseStartTime,
                 currentPhaseDuration, isInYellow>>

hasStateChanged ==
  /\ lastBroadcastState' = IF hasStateChangedValue
                             THEN JSONstringify(signalState)
                             ELSE lastBroadcastState
  /\ UNCHANGED <<signalState, trafficData, currentPhase, phaseStartTime,
                 currentPhaseDuration, isInYellow>>

\* getPhaseInfo(), without its timestamp
getPhaseInfo ==
  [phase |-> currentPhase,
   signalState |-> signalState,
   elapsedSeconds |-> elapsedTime(now, phaseStartTime),
   totalDurationSeconds |-> currentPhaseDuration,
   remainingSeconds |->
     Max(0, currentPhaseDuration - elapsedTime(now, phaseStartTime)),
   isYellow |-> isInYellow]

\* getStatus(), without its timestamp, on the samples td
getStatus(td) ==
  [phase |-> getPhaseInfo,
   traffic |-> td,
   demands |-> calculateAllDemands(td),
   signals |-> signalState]

\* reset()
reset ==
  /\ trafficData' = NoTraffic
  /\ currentPhase' = PHASE_AC_GREEN
  /\ phaseStartTime' = now
  /\ currentPhaseDuration' = MIN_GREEN
  /\ isInYellow' = FALSE
  /\ lastBroadcastState' = JSONstringify(AllRed)
  /\ signalState' = applyPhaseSignals(PHASE_AC_GREEN)

(* --------------------------- MessageHandler.js -------------------------- *)

(* What JSON.parse makes of one inbound line, as far as the handlers look  *)
(* at it.  json: "malformed" (JSON.parse throws), "null", "scalar" (a      *)
(* number, string, boolean or array: it has no type field) or "object".    *)
(* data.k: "undefined" (missing or falsy), "scalar", "array", "object";    *)
(* an entry of data per route is "absent", "null", "scalar" or "object"    *)
(* with the fields vehicles and heavyVehicles.  routes.k: "undefined"      *)
(* (missing or falsy), "all", "array" (of elems) or "other".               *)

NoEntry == [k |-> "absent", vehicles |-> JSUndefined, heavyVehicles |-> JSUndefined]
NullEntry == [k |-> "null", vehicles |-> JSUndefined, heavyVehicles |-> JSUndefined]
ScalarEntry == [k |-> "scalar", vehicles |-> JSUndefined, heavyVehicles |-> JSUndefined]
Entry(v, h) == [k |-> "object", vehicles |-> v, heavyVehicles |-> h]

NoData == [k |-> "undefined", entries |-> [r \in Routes |-> NoEntry]]
ScalarData == [k |-> "scalar", entries |-> [r \in Routes |-> NoEntry]]
ArrayData == [k |-> "array", entries |-> [r \in Routes |-> NoEntry]]
ObjectData(entries) == [k |-> "object", entries |-> entries]

NoRoutes == [k |-> "undefined", elems |-> <<>>]
AllRoutes == [k |-> "all", elems |-> <<>>]
OtherRoutes == [k |-> "other", elems |-> <<>>]
RouteArray(elems) == [k |-> "array", elems |-> elems]

JsonText(json) ==
  [json |-> json, type |-> "undefined", data |-> NoData, routes |-> NoRoutes,
   queryType |-> "undefined"]
JsonObject(type, data, routes, queryType) ==
  [json |-> "object", type |-> type, data |-> data, routes |-> routes,
   queryType |-> queryType]

CAMERA_UPDATE == "CAMERA_UPDATE"
SUBSCRIBE == "SUBSCRIBE"
UNSUBSCRIBE == "UNSUBSCRIBE"
QUERY == "QUERY"
STATUS == "STATUS"
ERROR == "ERROR"

\* parseMessage(rawData): TRUE when a message comes back, FALSE for null.
\* JSON.parse throwing and the TypeError of null.type are both caught.
parseMessage(m) == m.json = "object" /\ m.type # "undefined"

Invalid == [isValid |-> FALSE, throws |-> FALSE, type |-> "undefined",
            data |-> [r \in Routes |-> [present |-> FALSE, vehicles |-> 0, heavyVehicles |-> 0]],
            routes |-> <<>>, queryType |-> "undefined"]

\* what the loop body of validateCameraUpdate does with the entry of a route
EntryOutcome(e) ==
  IF e.k = "absent" THEN "skip"
  ELSE IF e.k = "scalar" THEN "invalid"        \* typeof routeData !== 'object'
  ELSE IF e.k = "null" THEN "throws"           \* typeof null === 'object', null.vehicles
  ELSE IF e.vehicles.t = "nan" THEN "invalid"  \* isNaN(vehicles) && !== undefined
  ELSE IF e.heavyVehicles.t = "nan" THEN "invalid"
  ELSE "ok"

\* the first route, in the order of ROUTES, whose entry ends the loop
RECURSIVE FirstBadRoute(_, _)
FirstBadRoute(entries, i) ==
  IF i > Len(ROUTES) THEN 0
  ELSE IF EntryOutcome(entries[ROUTES[i]]) \in {"invalid", "throws"} THEN i
  ELSE FirstBadRoute(entries, i + 1)

\* validateCameraUpdate(message)
validateCameraUpdate(m) ==
  IF m.data.k \in {"undefined", "scalar"}
    THEN Invalid
  ELSE LET bad == FirstBadRoute(m.data.entries, 1)
       IN  IF bad # 0
             THEN [Invalid EXCEPT !.throws =
                     EntryOutcome(m.data.entries[ROUTES[bad]]) = "throws"]
             ELSE [Invalid EXCEPT
                     !.isValid = TRUE,
                     !.type = CAMERA_UPDATE,
                     !.data = [r \in Routes |->
                        LET e == m.data.entries[r]
                        IN  [present |-> e.k = "object",
                             vehicles |-> Max(0, parseIntOr0(e.vehicles)),
                             heavyVehicles |-> Max(0, parseIntOr0(e.heavyVehicles))]]]

\* validateSubscribe(message) and validateUnsubscribe(message)
validateSubscribe(m, type) ==
  IF m.routes.k = "all"
    THEN [Invalid EXCEPT !.isValid = TRUE, !.type = type, !.routes = ROUTES]
  ELSE IF m.routes.k = "array"
          /\ \A i \in 1..Len(m.routes.elems) : m.routes.elems[i] \in Routes
    THEN [Invalid EXCEPT !.isValid = TRUE, !.type = type, !.routes = m.routes.elems]
  ELSE Invalid

\* validateQuery taking an absent queryType for "phase"
validateQuery_defaultsToPhase(m) ==
  LET queryType == IF m.queryType = "undefined" THEN "phase" ELSE m.queryType
  IN  IF queryType \in {"status", "phase", "traffic"}
        THEN [Invalid EXCEPT !.isValid = TRUE, !.type = QUERY, !.queryType = queryType]
        ELSE Invalid

\* validateQuery(message)
validateQuery(m) ==
  LET queryType == IF m.queryType = "undefined" THEN "status" ELSE m.queryType
  IN  IF queryType \in {"status", "phase", "traffic"}
        THEN [Invalid EXCEPT !.isValid = TRUE, !.type = QUERY, !.queryType = queryType]
        ELSE Invalid

\* processIncomingMessage(rawData)
processIncomingMessage(m) ==
  IF ~parseMessage(m) THEN Invalid
  ELSE IF m.type = CAMERA_UPDATE THEN validateCameraUpdate(m)
  ELSE IF m.type = SUBSCRIBE THEN validateSubscribe(m, SUBSCRIBE)
  ELSE IF m.type = UNSUBSCRIBE THEN validateSubscribe(m, UNSUBSCRIBE)
  ELSE IF m.type = QUERY THEN validateQuery(m)
  ELSE Invalid

(* ------------------ the controller driven by its callers ---------------- *)

\* <<vehicles, heavyVehicles>> as callers pass them:
\* (-1, NaN) and (3.5, 1)
SampleInputs == {<<JSNum(-2), JSNaN>>, <<JSNum(7), JSNum(2)>>}
\* routes as callers pass them: the four routes and one that is none of them
RouteInputs == Routes \cup {"E"}

\* no text under way; no broadcast produced or written
NoStream == [whole |-> <<>>, sent |-> 0, events |-> 0, handed |-> <<>>]
NoSockets ==
  [produced |-> 0, inflight |-> [id \in ClientIds |-> <<>>],
   got |-> [id \in ClientIds |-> 0]]

NoFrames == [id \in ClientIds |-> <<>>]

CalcIdle ==
  [demandA |-> JSNum(0), demandB |-> JSNum(0), demandC |-> JSNum(0),
   demandD |-> JSNum(0), phase |-> PHASE_AC_GREEN, called |-> FALSE, result |-> 0]

\* new ClientManager(logger)
InitClientManager ==
  /\ clients = <<>>
  /\ nextClientId = 1
  /\ outbox = NoFrames
  /\ crashed = FALSE

Init ==
  /\ InitController
  /\ InitClientManager
  /\ now = 0
  /\ ret = [op |-> "constructor", val |-> "undefined"]
  /\ calc = CalcIdle
  /\ pending = {}
  /\ stream = NoStream
  /\ sockets = NoSockets

Tick ==
  /\ \E d \in TickSteps : now + d <= MaxNow /\ now' = now + d
  /\ ret' = [op |-> "tick", val |-> "undefined"]
  /\ UNCHANGED <<ctlVars, srvVars, calc, pending, stream, sockets>>

UpdatePhase ==
  /\ updatePhase
  /\ ret' = [op |-> "updatePhase",
             val |-> IF updatePhaseValue THEN "true" ELSE "false"]
  /\ UNCHANGED <<now, srvVars, calc, pending, stream, sockets>>

UpdateTrafficData ==
  /\ \E r \in RouteInputs, s \in SampleInputs :
       /\ trafficData' = updateTrafficData(trafficData, r, s[1], s[2])
       /\ ret' = [op |-> "updateTrafficData",
                  val |-> IF updateTrafficDataThrows(r) THEN "throws"
                                                        ELSE "undefined"]
  /\ UNCHANGED <<signalState, currentPhase, phaseStartTime,
                 currentPhaseDuration, isInYellow, lastBroadcastState, now,
                 srvVars, calc, pending, stream, sockets>>

HasStateChanged ==
  /\ hasStateChanged
  /\ ret' = [op |-> "hasStateChanged",
             val |-> IF hasStateChangedValue THEN "true" ELSE "false"]
  /\ UNCHANGED <<now, srvVars, calc, pending, stream, sockets>>

GetStatus ==
  /\ ret' = [op |-> "getStatus", val |-> "undefined"]
  /\ UNCHANGED <<ctlVars, now, srvVars, calc, pending, stream, sockets>>

Reset ==
  /\ reset
  /\ ret' = [op |-> "reset", val |-> "undefined"]
  /\ UNCHANGED <<now, srvVars, calc, pending, stream, sockets>>

Next ==
  \/ Tick
  \/ UpdatePhase
  \/ UpdateTrafficData
  \/ HasStateChanged
  \/ GetStatus
  \/ Reset

Spec == Init /\ [][Next]_vars

(* ------------------------ the calculator on its own --------------------- *)

\* demands as callers pass them: -1 .. MaxDemand/2 in steps of 0.5, a
\* non-numeric value and undefined
DemandInputs == {JSNum(h) : h \in -2..MaxDemand} \cup {JSNaN, JSUndefined}

InitCalc ==
  /\ InitController
  /\ InitClientManager
  /\ now = 0
  /\ ret = [op |-> "constructor", val |-> "undefined"]
  /\ calc \in [demandA : DemandInputs, demandB : DemandInputs,
                demandC : DemandInputs, demandD : DemandInputs,
                phase : {PHASE_AC_GREEN, PHASE_BD_GREEN},
                called : {FALSE}, result : {0}]
  /\ pending = {}
  /\ stream = NoStream
  /\ sockets = NoSockets

CalculateGreenDuration ==
  /\ ~calc.called
  /\ calc' = [calc EXCEPT
       !.called = TRUE,
       !.result = calculateGreenDuration(calc.demandA, calc.demandB,
                                         calc.demandC, calc.demandD, calc.phase)]
  /\ UNCHANGED <<ctlVars, now, ret, srvVars, pending, stream, sockets>>

NextCalc == CalculateGreenDuration

SpecCalc == InitCalc /\ [][NextCalc]_vars

(* ------------- the transition out of yellow on stored samples ---------- *)

\* the samples of the worked example: A {30,5}, C {25,4}, B {2,0}, D {3,0}
ExampleTraffic ==
  [r \in Routes |->
     IF r = "A" THEN [vehicles |-> 30, heavyVehicles |-> 5]
     ELSE IF r = "C" THEN [vehicles |-> 25, heavyVehicles |-> 4]
     ELSE IF r = "B" THEN [vehicles |-> 2, heavyVehicles |-> 0]
     ELSE [vehicles |-> 3, heavyVehicles |-> 0]]

\* what updateTrafficData stores: non-negative integers
Samples ==
  [vehicles : 0..MaxVehicles, heavyVehicles : 0..MaxHeavy]
    \cup {ExampleTraffic[r] : r \in Routes}

\* a yellow phase at its end, whatever samples the updates have stored
InitTransition ==
  /\ trafficData \in [Routes -> Samples]
  /\ currentPhase \in {PHASE_AC_YELLOW, PHASE_BD_YELLOW}
  /\ signalState = applyPhaseSignals(currentPhase)
  /\ phaseStartTime = 0
  /\ currentPhaseDuration = YELLOW_DURATION
  /\ isInYellow = TRUE
  /\ lastBroadcastState = JSONstringify(signalState)
  /\ InitClientManager
  /\ now = YELLOW_DURATION * 1000
  /\ ret = [op |-> "tick", val |-> "undefined"]
  /\ calc = CalcIdle
  /\ pending = {}
  /\ stream = NoStream
  /\ sockets = NoSockets

NextTransition == UpdatePhase

SpecTransition == InitTransition /\ [][NextTransition]_vars

(* ------------------------ ClientManager.js, server.js ------------------- *)

\* A frame written to a socket: its type, what caused it (the welcome of
\* handleNewConnection, the reply to a message, the broadcast loop) and its
\* content.
Frame(type, origin, body) == [type |-> type, origin |-> origin, body |-> body]
\* a frame whose data is controller state
DataFrame(type, origin, body, data) ==
  [type |-> type, origin |-> origin, body |-> body, data |-> data]
\* the welcome carrying the value of nextClientId after the increment
WelcomeFrame_nextId(id) ==
  DataFrame(STATUS, "welcome", "clientId", [clientId |-> id + 1])
\* formatMessage({clientId: client.id, message: ...}, STATUS)
WelcomeFrame(id) ==
  DataFrame(STATUS, "welcome", "clientId", [clientId |-> id])
ErrorFrame == Frame(ERROR, "reply", "INVALID_MESSAGE")
ReplyFrame(body) == Frame(STATUS, "reply", body)

\* the broadcast loop sending the full status
BroadcastFrame_fullStatus ==
  DataFrame(STATUS, "broadcast", "phase", getStatus(trafficData))

\* formatMessage(getPhaseInfo(), STATUS) of the broadcast loop
BroadcastFrame == DataFrame(STATUS, "broadcast", "phase", getPhaseInfo)

\* new ClientConnection(id, socket, logger); socket is the state of the
\* transport: writes to a "failing" socket call back with an error.
\* sentSubscribe records that a valid SUBSCRIBE of the client was handled.
NewClient ==
  [subscribedRoutes |-> {}, isActive |-> TRUE, lastMessageAt |-> now,
   bufferedData |-> <<>>, socket |-> "open", writeError |-> FALSE,
   sentSubscribe |-> FALSE]

\* The state the handlers work on, threaded through their calls; outbox
\* collects what this run writes and handed the lines this run passes to
\* processClientMessage.
HandlerState ==
  [trafficData |-> trafficData, clients |-> clients,
   outbox |-> NoFrames, crashed |-> crashed, handed |-> <<>>]

\* sendMessage writing without looking at isActive
sendMessage_ignoresIsActive(st, id, frame) ==
  IF st.clients[id].socket = "open"
    THEN [st EXCEPT !.outbox[id] = Append(@, frame)]
  ELSE [st EXCEPT !.clients[id].writeError = TRUE]

\* ClientConnection.sendMessage(message)
sendMessage(st, id, frame) ==
  IF ~st.clients[id].isActive
    THEN st
  ELSE IF st.clients[id].socket = "open"
    THEN [st EXCEPT !.outbox[id] = Append(@, frame)]
  ELSE [st EXCEPT !.clients[id].writeError = TRUE]

\* getActiveClients(), as ids
getActiveClients(cl) == {id \in DOMAIN cl : cl[id].isActive}

\* getSubscribedClients asking for a subscription to every route of routes
getSubscribedClients_everyRoute(cl, hasRoutes, routes) ==
  {id \in DOMAIN cl :
     /\ cl[id].isActive
     /\ IF ~hasRoutes THEN cl[id].subscribedRoutes # {}
                      ELSE routes \subseteq cl[id].subscribedRoutes}

\* getSubscribedClients(routes); hasRoutes is FALSE for routes = null
getSubscribedClients(cl, hasRoutes, routes) ==
  {id \in DOMAIN cl :
     /\ cl[id].isActive
     /\ IF ~hasRoutes THEN cl[id].subscribedRoutes # {}
                      ELSE cl[id].subscribedRoutes \cap routes # {}}

\* the sendMessage calls of broadcastMessage, in the order of the ids
RECURSIVE SendToAll(_, _, _, _)
SendToAll(st, targets, frame, id) ==
  IF id > LastClientId THEN st
  ELSE SendToAll(IF id \in targets /\ id \in DOMAIN st.clients
                      /\ st.clients[id].isActive
                   THEN sendMessage(st, id, frame) ELSE st,
                 targets, frame, id + 1)

\* broadcastMessage writing to the last target only
broadcastMessage_lastTargetOnly(st, frame, hasRoutes, routes) ==
  LET targetClientIds == IF hasRoutes
                           THEN getSubscribedClients(st.clients, TRUE, routes)
                           ELSE getActiveClients(st.clients)
  IN  SendToAll(st, targetClientIds, frame, LastClientId)

\* broadcastMessage(message, routes = null)
broadcastMessage(st, frame, hasRoutes, routes) ==
  LET targetClientIds == IF hasRoutes
                           THEN getSubscribedClients(st.clients, TRUE, routes)
                           ELSE getActiveClients(st.clients)
  IN  SendToAll(st, targetClientIds, frame, 1)

\* removeClient clearing the subscriptions of the sessions it leaves
removeClient_clearsOthers(cl, id) ==
  [i \in DOMAIN cl \ {id} |-> [cl[i] EXCEPT !.subscribedRoutes = {}]]

\* removeClient(clientId): close() and delete
removeClient(cl, id) == [i \in DOMAIN cl \ {id} |-> cl[i]]

\* the loop of handleCameraUpdate over ROUTES
RECURSIVE ApplyCameraUpdate(_, _, _)
ApplyCameraUpdate(td, data, i) ==
  IF i > Len(ROUTES) THEN td
  ELSE ApplyCameraUpdate(
         IF data[ROUTES[i]].present
           THEN updateTrafficData(td, ROUTES[i],
                                  JSNum(2 * data[ROUTES[i]].vehicles),
                                  JSNum(2 * data[ROUTES[i]].heavyVehicles))
           ELSE td,
         data, i + 1)

\* handleCameraUpdate giving way to the other handlers after the first route
\* it has updated
handleCameraUpdate_yieldsInLoop(st, id, data) ==
  LET present == {i \in 1..Len(ROUTES) : data[ROUTES[i]].present}
      first == CHOOSE i \in present : \A j \in present : i <= j
  IN  sendMessage(
        [st EXCEPT !.trafficData =
           IF present = {} THEN @
           ELSE updateTrafficData(@, ROUTES[first],
                                  JSNum(2 * data[ROUTES[first]].vehicles),
                                  JSNum(2 * data[ROUTES[first]].heavyVehicles))],
        id, ReplyFrame("accepted"))

\* handleCameraUpdate(clientId, trafficData)
handleCameraUpdate(st, id, data) ==
  sendMessage([st EXCEPT !.trafficData = ApplyCameraUpdate(@, data, 1)],
              id, ReplyFrame("accepted"))

SeqToSet(q) == {q[i] : i \in 1..Len(q)}

\* handleSubscribe replacing the subscription set by the routes
handleSubscribe_replaces(st, id, routes) ==
  sendMessage([st EXCEPT !.clients[id].subscribedRoutes = SeqToSet(routes),
                         !.clients[id].sentSubscribe = TRUE],
              id, ReplyFrame("subscribed"))

\* handleSubscribe(clientId, routes): subscribeClient, then the reply
handleSubscribe(st, id, routes) ==
  sendMessage([st EXCEPT !.clients[id].subscribedRoutes = @ \cup SeqToSet(routes),
                         !.clients[id].sentSubscribe = TRUE],
              id, ReplyFrame("subscribed"))

\* handleUnsubscribe(clientId, routes): unsubscribeClient, then the reply
handleUnsubscribe(st, id, routes) ==
  sendMessage([st EXCEPT !.clients[id].subscribedRoutes = @ \ SeqToSet(routes)],
              id, ReplyFrame("unsubscribed"))

\* handleQuery clearing the samples it reported
handleQuery_clearsSamples(st, id, queryType) ==
  LET responseData ==
        IF queryType = "phase" THEN getPhaseInfo
        ELSE IF queryType = "traffic"
          THEN [trafficData |-> st.trafficData,
                demands |-> calculateAllDemands(st.trafficData)]
        ELSE getStatus(st.trafficData)
  IN  sendMessage([st EXCEPT !.trafficData = NoTraffic], id,
                  DataFrame(STATUS, "reply", queryType, responseData))

\* handleQuery(clientId, queryType)
handleQuery(st, id, queryType) ==
  LET responseData ==
        IF queryType = "phase" THEN getPhaseInfo
        ELSE IF queryType = "traffic"
          THEN [trafficData |-> st.trafficData,
                demands |-> calculateAllDemands(st.trafficData)]
        ELSE getStatus(st.trafficData)
  IN  sendMessage(st, id, DataFrame(STATUS, "reply", queryType, responseData))

\* processClientMessage closing the connection after an ERROR reply
processClientMessage_closesOnError(st, id, m) ==
  LET result == processIncomingMessage(m)
  IN  IF id \notin DOMAIN st.clients THEN st
      ELSE IF result.throws THEN [st EXCEPT !.crashed = TRUE]
      ELSE IF ~result.isValid
        THEN [sendMessage(st, id, ErrorFrame) EXCEPT !.clients = removeClient(@, id)]
      ELSE IF result.type = CAMERA_UPDATE THEN handleCameraUpdate(st, id, result.data)
      ELSE IF result.type = SUBSCRIBE THEN handleSubscribe(st, id, result.routes)
      ELSE IF result.type = UNSUBSCRIBE THEN handleUnsubscribe(st, id, result.routes)
      ELSE handleQuery(st, id, result.queryType)

\* processClientMessage(clientId, rawMessage); an exception thrown by the
\* validation is caught nowhere
processClientMessage(st, id, m) ==
  LET result == processIncomingMessage(m)
  IN  IF id \notin DOMAIN st.clients THEN st
      ELSE IF result.throws THEN [st EXCEPT !.crashed = TRUE]
      ELSE IF ~result.isValid THEN sendMessage(st, id, ErrorFrame)
      ELSE IF result.type = CAMERA_UPDATE THEN handleCameraUpdate(st, id, result.data)
      ELSE IF result.type = SUBSCRIBE THEN handleSubscribe(st, id, result.routes)
      ELSE IF result.type = UNSUBSCRIBE THEN handleUnsubscribe(st, id, result.routes)
      ELSE handleQuery(st, id, result.queryType)

(* Inbound text is a sequence of tokens: NL is a newline, SP is white      *)
(* space, a positive token i is the text of InboundMessages[i].            *)
NL == 0
SP == -1

\* the messages clients send
InboundMessages == <<
  JsonText("malformed"),
  JsonText("null"),
  JsonObject("undefined", NoData, NoRoutes, "undefined"),
  JsonObject("BOGUS", NoData, NoRoutes, "undefined"),
  JsonObject(CAMERA_UPDATE, ScalarData, NoRoutes, "undefined"),
  JsonObject(CAMERA_UPDATE,
             ObjectData([r \in Routes |-> IF r = "A" THEN NullEntry ELSE NoEntry]),
             NoRoutes, "undefined"),
  JsonObject(CAMERA_UPDATE,
             ObjectData([r \in Routes |->
                IF r = "A" THEN Entry(JSNum(7), JSNum(2))
                ELSE IF r = "B" THEN Entry(JSNaN, JSUndefined) ELSE NoEntry]),
             NoRoutes, "undefined"),
  JsonObject(CAMERA_UPDATE,
             ObjectData([r \in Routes |->
                IF r = "A" THEN Entry(JSNum(7), JSNum(2))
                ELSE IF r = "D" THEN Entry(JSNum(-2), JSUndefined) ELSE NoEntry]),
             NoRoutes, "undefined"),
  JsonObject(SUBSCRIBE, NoData, AllRoutes, "undefined"),
  JsonObject(SUBSCRIBE, NoData, RouteArray(<<"A", "E">>), "undefined"),
  JsonObject(SUBSCRIBE, NoData, RouteArray(<<"A", "C">>), "undefined"),
  JsonObject(UNSUBSCRIBE, NoData, RouteArray(<<"A">>), "undefined"),
  JsonObject(UNSUBSCRIBE, NoData, OtherRoutes, "undefined"),
  JsonObject(QUERY, NoData, NoRoutes, "undefined"),
  JsonObject(QUERY, NoData, NoRoutes, "traffic"),
  JsonObject(QUERY, NoData, NoRoutes, "bogus"),
  JsonObject(CAMERA_UPDATE,
             ObjectData([r \in Routes |-> IF r = "C" THEN ScalarEntry ELSE NoEntry]),
             NoRoutes, "undefined"),
  JsonObject(QUERY, NoData, NoRoutes, "phase"),
  JsonObject(QUERY, NoData, NoRoutes, "status"),
  JsonObject(CAMERA_UPDATE,
             ObjectData([r \in Routes |->
                IF r \in {"B", "D"} THEN Entry(JSNum(7), JSNum(2)) ELSE NoEntry]),
             NoRoutes, "undefined") >>

\* the messages of the server runs; the last message of InboundMessages,
\* an update of the pair B, D, is sent in the runs of SpecAtomic
MessageIds == 1..(Len(InboundMessages) - 1)

\* what JSON.parse is given for a line: the message when the line holds the
\* text of one message and white space, something malformed otherwise
LineMessage(line) ==
  LET texts == SelectSeq(line, LAMBDA t : t # SP)
  IN  IF Len(texts) = 1 THEN InboundMessages[texts[1]] ELSE JsonText("malformed")

\* message.trim() is empty
IsBlank(line) == \A i \in 1..Len(line) : line[i] = SP

\* text.split('\n')
RECURSIVE Split(_, _, _)
Split(text, i, acc) ==
  IF i > Len(text) THEN acc
  ELSE IF text[i] = NL THEN Split(text, i + 1, Append(acc, <<>>))
  ELSE Split(text, i + 1,
             [acc EXCEPT ![Len(acc)] = Append(@, text[i])])

split(text) == Split(text, 1, << <<>> >>)

\* the loop of handleClientData over the complete lines; an exception
\* leaves the loop
RECURSIVE ProcessLines(_, _, _, _)
ProcessLines(st, id, messages, i) ==
  IF i > Len(messages) \/ st.crashed THEN st
  ELSE ProcessLines(
         IF IsBlank(messages[i]) THEN st
         ELSE processClientMessage([st EXCEPT !.handed = Append(@, messages[i])],
                                   id, LineMessage(messages[i])),
         id, messages, i + 1)

\* handleClientData taking the complete lines of an event last to first
handleClientData_lastLineFirst(st, id, data) ==
  IF id \notin DOMAIN st.clients THEN st
  ELSE LET messages == split(st.clients[id].bufferedData \o data)
           st1 == [st EXCEPT !.clients[id].lastMessageAt = now,
                             !.clients[id].bufferedData = messages[Len(messages)]]
       IN  ProcessLines(st1, id,
                        [i \in 1..(Len(messages) - 1) |->
                           messages[Len(messages) - i]], 1)

\* handleClientData forgetting the text after the last newline
handleClientData_dropsFragment(st, id, data) ==
  IF id \notin DOMAIN st.clients THEN st
  ELSE LET messages == split(st.clients[id].bufferedData \o data)
           st1 == [st EXCEPT !.clients[id].lastMessageAt = now,
                             !.clients[id].bufferedData = <<>>]
       IN  ProcessLines(st1, id, SubSeq(messages, 1, Len(messages) - 1), 1)

\* handleClientData(clientId, data)
handleClientData(st, id, data) ==
  IF id \notin DOMAIN st.clients THEN st
  ELSE LET messages == split(st.clients[id].bufferedData \o data)
           st1 == [st EXCEPT !.clients[id].lastMessageAt = now,
                             !.clients[id].bufferedData = messages[Len(messages)]]
       IN  ProcessLines(st1, id, SubSeq(messages, 1, Len(messages) - 1), 1)

\* cleanupInactiveClients(inactivityThreshold = 60000)
INACTIVITY_THRESHOLD == 60000

\* cleanupInactiveClients removing a session idle for the threshold exactly
cleanupInactiveClients_atThreshold(cl, inactivityThreshold) ==
  LET removed == {id \in DOMAIN cl :
                    \/ ~cl[id].isActive
                    \/ now - cl[id].lastMessageAt >= inactivityThreshold}
  IN  [id \in DOMAIN cl \ removed |-> cl[id]]

cleanupInactiveClients(cl, inactivityThreshold) ==
  LET removed == {id \in DOMAIN cl :
                    \/ ~cl[id].isActive
                    \/ now - cl[id].lastMessageAt > inactivityThreshold}
  IN  [id \in DOMAIN cl \ removed |-> cl[id]]

(* ------------------------------ the server ------------------------------ *)

\* clock steps of the server runs, in milliseconds
ServerTickSteps == {6000}

\* what one data event carries: a line, a line without its newline, the
\* newline alone, a blank line and a message, two lines
DataEvents ==
  {<<i, NL>> : i \in MessageIds}
    \cup {<<14>>, <<NL>>, <<SP, NL, 14, NL>>, <<9, NL, 14, NL>>}

\* text buffered per client
MaxBuffered == 1

\* the handlers' result becomes the state
Commit(st) ==
  /\ \A id \in DOMAIN st.clients : Len(st.clients[id].bufferedData) <= MaxBuffered
  /\ trafficData' = st.trafficData
  /\ clients' = st.clients
  /\ outbox' = st.outbox
  /\ crashed' = st.crashed

ServerTick ==
  /\ ~crashed
  /\ \E d \in ServerTickSteps : now + d <= MaxNow /\ now' = now + d
  /\ outbox' = NoFrames
  /\ UNCHANGED <<ctlVars, ret, clients, nextClientId, crashed, calc, pending, stream, sockets>>

\* the callback of startPhaseUpdates
phaseUpdateCallback ==
  /\ ~crashed
  /\ updatePhase
  /\ outbox' = NoFrames
  /\ UNCHANGED <<now, ret, clients, nextClientId, crashed, calc, stream,
                 sockets>>

\* the callback run at any moment
PhaseUpdateLoop == phaseUpdateCallback /\ UNCHANGED pending

\* the callback of startBroadcasting
broadcastCallback ==
  /\ ~crashed
  /\ hasStateChanged
  /\ IF hasStateChangedValue
       THEN LET st == broadcastMessage(HandlerState, BroadcastFrame, FALSE, {})
            IN  /\ clients' = st.clients
                /\ outbox' = st.outbox
       ELSE /\ outbox' = NoFrames
            /\ UNCHANGED clients
  /\ UNCHANGED <<now, ret, nextClientId, crashed, calc, stream>>

\* the callback run at any moment
BroadcastLoop == broadcastCallback /\ UNCHANGED <<pending, sockets>>

\* the callback of startCleanup
CleanupLoop ==
  /\ ~crashed
  /\ clients' = cleanupInactiveClients(clients, INACTIVITY_THRESHOLD)
  /\ outbox' = NoFrames
  /\ UNCHANGED <<ctlVars, now, ret, nextClientId, crashed, calc, pending, stream, sockets>>

\* SERVER_CONFIG.MAX_CONNECTIONS
MAX_CONNECTIONS == 100

\* handleNewConnection(socket): addClient and the welcome message; the model
\* accepts connections while the id to hand out is at most lastId
handleNewConnection(lastId) ==
  /\ ~crashed
  /\ nextClientId <= lastId
  /\ clients' = [id \in DOMAIN clients \cup {nextClientId} |->
                   IF id = nextClientId THEN NewClient ELSE clients[id]]
  /\ outbox' = [id \in ClientIds \cup {nextClientId} |->
                  IF id = nextClientId THEN <<WelcomeFrame(nextClientId)>>
                  ELSE <<>>]
  /\ nextClientId' = nextClientId + 1
  /\ UNCHANGED <<ctlVars, now, ret, crashed, calc, pending, stream, sockets>>

HandleNewConnection == handleNewConnection(LastClientId)

\* socket.on('data') of a client that was accepted, removed or not
HandleClientData(id, data) ==
  /\ ~crashed
  /\ id < nextClientId
  /\ Commit(handleClientData(HandlerState, id, data))
  /\ UNCHANGED <<signalState, currentPhase, phaseStartTime,
                 currentPhaseDuration, isInYellow, lastBroadcastState,
                 now, ret, nextClientId, calc, pending, stream, sockets>>

ClientData == \E id \in ClientIds, data \in DataEvents : HandleClientData(id, data)

\* socket.on('end'), on('error'), on('timeout'): handleClientDisconnect
HandleClientDisconnect ==
  /\ ~crashed
  /\ \E id \in DOMAIN clients : clients' = removeClient(clients, id)
  /\ outbox' = NoFrames
  /\ UNCHANGED <<ctlVars, now, ret, nextClientId, crashed, calc, pending, stream, sockets>>

\* the transport of a client starts to fail its writes
SocketFails ==
  /\ ~crashed
  /\ \E id \in DOMAIN clients :
       /\ clients[id].socket = "open"
       /\ clients' = [clients EXCEPT ![id].socket = "failing"]
  /\ outbox' = NoFrames
  /\ UNCHANGED <<ctlVars, now, ret, nextClientId, crashed, calc, pending, stream, sockets>>

\* the callback of socket.write with an error, in sendMessage
WriteCallback ==
  /\ ~crashed
  /\ \E id \in DOMAIN clients :
       /\ clients[id].writeError
       /\ clients' = [clients EXCEPT ![id].writeError = FALSE,
                                     ![id].isActive = FALSE]
  /\ outbox' = NoFrames
  /\ UNCHANGED <<ctlVars, now, ret, nextClientId, crashed, calc, pending, stream, sockets>>

\* the server over transports that do not fail
NextServer ==
  \/ ServerTick
  \/ PhaseUpdateLoop
  \/ BroadcastLoop
  \/ CleanupLoop
  \/ HandleNewConnection
  \/ ClientData
  \/ HandleClientDisconnect

SpecServer == Init /\ [][NextServer]_vars

\* the server over transports that may fail
NextServerFaults ==
  \/ NextServer
  \/ SocketFails
  \/ WriteCallback

SpecServerFaults == Init /\ [][NextServerFaults]_vars

(* ----------------------- the server on its timers ---------------------- *)

(* The interval timers of start().  The broadcast timer expires every      *)
(* BROADCAST_INTERVAL ms.  The phase timer expires every 100 ms; phases    *)
(* start at multiples of 500 ms and updatePhase() acts from d * 1000 - 500 *)
(* ms on, so its runs between two expiries of the broadcast timer return   *)
(* false, and it is taken at the instants of the broadcast timer.  Two     *)
(* callbacks due at one instant run in either order.                       *)
BROADCAST_INTERVAL == 500

\* what clients send while the timers run: SUBSCRIBE all, UNSUBSCRIBE [A]
TimedDataEvents == {<<9, NL>>, <<12, NL>>}

TimerTick ==
  /\ ~crashed
  /\ pending = {}
  /\ now + BROADCAST_INTERVAL <= MaxNow
  /\ now' = now + BROADCAST_INTERVAL
  /\ pending' = {"phase", "broadcast"}
  /\ outbox' = NoFrames
  /\ UNCHANGED <<ctlVars, ret, clients, nextClientId, crashed, calc, stream,
                 sockets>>

PhaseTimer ==
  /\ "phase" \in pending
  /\ phaseUpdateCallback
  /\ pending' = pending \ {"phase"}

BroadcastTimer ==
  /\ "broadcast" \in pending
  /\ broadcastCallback
  /\ pending' = pending \ {"broadcast"}
  /\ UNCHANGED sockets

TimedClientData ==
  \E id \in ClientIds, data \in TimedDataEvents : HandleClientData(id, data)

NextTimers ==
  \/ TimerTick
  \/ PhaseTimer
  \/ BroadcastTimer
  \/ HandleNewConnection
  \/ TimedClientData
  \/ HandleClientDisconnect

SpecTimers == Init /\ [][NextTimers]_vars

(* --------------------- the sessions and their sockets ------------------- *)

\* connections, subscriptions, failing writes and the cleanup, with the
\* controller at rest
\* resetAllClients(): removeClient for every key of the table
RECURSIVE resetAllClients(_)
resetAllClients(cl) ==
  IF DOMAIN cl = {} THEN cl
  ELSE resetAllClients(removeClient(cl, CHOOSE id \in DOMAIN cl : TRUE))

\* resetAllClients() restarting the ids
ResetAllClients_restartsIds ==
  /\ ~crashed
  /\ clients' = resetAllClients(clients)
  /\ nextClientId' = 1
  /\ outbox' = NoFrames
  /\ UNCHANGED <<ctlVars, now, ret, crashed, calc, pending, stream, sockets>>

\* clientManager.resetAllClients(), which stop() calls; the manager and its
\* nextClientId live on in a server that is started again
ResetAllClients ==
  /\ ~crashed
  /\ clients' = resetAllClients(clients)
  /\ outbox' = NoFrames
  /\ UNCHANGED <<ctlVars, now, ret, nextClientId, crashed, calc, pending, stream, sockets>>

NextSessions ==
  \/ HandleNewConnection
  \/ ResetAllClients
  \/ TimedClientData
  \/ HandleClientDisconnect
  \/ SocketFails
  \/ WriteCallback
  \/ CleanupLoop

SpecSessions == Init /\ [][NextSessions]_vars

(* ------------------ cleanup runs with any threshold -------------------- *)

\* Sessions that come, send, fail and fall idle while the clock advances in
\* steps of IdleStep up to MaxIdleNow, and cleanupInactiveClients called
\* with a threshold of CleanupThresholds.
IdleStep == 30000
MaxIdleNow == 120000
CleanupThresholds == {0, IdleStep, INACTIVITY_THRESHOLD}

\* removedCount, the value cleanupInactiveClients returns
removedCount(cl, inactivityThreshold) ==
  Cardinality({id \in DOMAIN cl :
                 \/ ~cl[id].isActive
                 \/ now - cl[id].lastMessageAt > inactivityThreshold})

IdleTime ==
  /\ ~crashed
  /\ now + IdleStep <= MaxIdleNow
  /\ now' = now + IdleStep
  /\ outbox' = NoFrames
  /\ UNCHANGED <<ctlVars, ret, clients, nextClientId, crashed, calc, pending,
                 stream, sockets>>

\* clientManager.cleanupInactiveClients(inactivityThreshold)
CleanupInactiveClients(inactivityThreshold) ==
  /\ ~crashed
  /\ clients' = cleanupInactiveClients(clients, inactivityThreshold)
  /\ ret' = [op |-> "cleanupInactiveClients",
             val |-> removedCount(clients, inactivityThreshold)]
  /\ outbox' = NoFrames
  /\ UNCHANGED <<ctlVars, now, nextClientId, crashed, calc, pending, stream,
                 sockets>>

Cleanup == \E threshold \in CleanupThresholds : CleanupInactiveClients(threshold)

NextCleanup ==
  \/ IdleTime
  \/ HandleNewConnection
  \/ TimedClientData
  \/ SocketFails
  \/ WriteCallback
  \/ Cleanup

SpecCleanup == Init /\ [][NextCleanup]_vars

(* ----------- the handlers of the timers and of the sockets ------------- *)

\* The timer callbacks and the 'data' events of clients that subscribe,
\* update the samples of the pair B, D in one message and query the status
\* and the phase, interleaved in any order.
AtomicDataEvents == {<<9, NL>>, <<18, NL>>, <<19, NL>>, <<20, NL>>}

AtomicClientData ==
  \E id \in ClientIds, data \in AtomicDataEvents : HandleClientData(id, data)

NextAtomic ==
  \/ TimerTick
  \/ PhaseTimer
  \/ BroadcastTimer
  \/ HandleNewConnection
  \/ AtomicClientData

SpecAtomic == Init /\ [][NextAtomic]_vars

(* ------------- the phase timer running for ever ------------------------ *)

\* The clock advances by LiveStep between two runs of the callback of
\* startPhaseUpdates, without end, while the samples of any route are
\* updated at any moment. The controller reads the clock only in
\* Date.now() - phaseStartTime, so the clock is kept relative to the start
\* of the phase, which keeps the runs in finitely many states.
LiveStep == 500

LiveTick ==
  /\ ~crashed
  /\ pending = {}
  /\ now' = (now - phaseStartTime) + LiveStep
  /\ phaseStartTime' = 0
  /\ pending' = {"phase"}
  /\ UNCHANGED <<signalState, trafficData, currentPhase, currentPhaseDuration,
                 isInYellow, lastBroadcastState, ret, srvVars, calc, stream,
                 sockets>>

\* signalController.updateTrafficData(route, vehicles, heavyVehicles)
LiveUpdate ==
  /\ \E r \in Routes, s \in SampleInputs :
       trafficData' = updateTrafficData(trafficData, r, s[1], s[2])
  /\ UNCHANGED <<signalState, currentPhase, phaseStartTime,
                 currentPhaseDuration, isInYellow, lastBroadcastState, now,
                 ret, srvVars, calc, pending, stream, sockets>>

NextLive ==
  \/ LiveTick
  \/ PhaseTimer
  \/ LiveUpdate

\* setInterval keeps calling the callback and the clock keeps advancing
SpecLive ==
  Init /\ [][NextLive]_vars /\ WF_vars(LiveTick) /\ WF_vars(PhaseTimer)

(* ------------- socket events of sessions already removed -------------- *)

\* socket.on('end'), on('error'), on('timeout') of a socket whose session
\* is no longer in the table: handleClientDisconnect once more
LateClientDisconnect ==
  /\ ~crashed
  /\ \E id \in 1..(nextClientId - 1) :
       /\ id \notin DOMAIN clients
       /\ clients' = removeClient(clients, id)
  /\ outbox' = NoFrames
  /\ UNCHANGED <<ctlVars, now, ret, nextClientId, crashed, calc, pending, stream, sockets>>

NextRemoval ==
  \/ HandleNewConnection
  \/ ResetAllClients
  \/ TimedClientData
  \/ HandleClientDisconnect
  \/ LateClientDisconnect
  \/ SocketFails
  \/ WriteCallback
  \/ CleanupLoop

SpecRemoval == Init /\ [][NextRemoval]_vars

(* --------------- one client's text arriving in 'data' events ----------- *)

\* The text a client sends is up to MaxStream pieces: newlines, blanks, a
\* malformed text, a CAMERA_UPDATE, a SUBSCRIBE, a SUBSCRIBE to a route
\* that does not exist and a QUERY of the traffic. Any cut of it into
\* 'data' events can happen.
MaxStream == 4
StreamAlphabet == {NL, SP, 1, 8, 9, 10, 15}
Streams == UNION {[1..n -> StreamAlphabet] : n \in 0..MaxStream}

\* the client of the stream is connected
InitStream ==
  /\ InitController
  /\ now = 0
  /\ ret = [op |-> "constructor", val |-> "undefined"]
  /\ clients = [id \in {1} |-> NewClient]
  /\ nextClientId = 2
  /\ outbox = NoFrames
  /\ crashed = FALSE
  /\ calc = CalcIdle
  /\ pending = {}
  /\ stream \in {[whole |-> w, sent |-> 0, events |-> 0, handed |-> <<>>] :
                    w \in Streams}
  /\ sockets = NoSockets

\* socket.on('data') with the next n pieces of the text
StreamData ==
  \E n \in 1..(Len(stream.whole) - stream.sent) :
    LET data == SubSeq(stream.whole, stream.sent + 1, stream.sent + n)
        st == handleClientData(HandlerState, 1, data)
    IN  /\ ~crashed
        /\ trafficData' = st.trafficData
        /\ clients' = st.clients
        /\ outbox' = st.outbox
        /\ crashed' = st.crashed
        /\ stream' = [stream EXCEPT !.sent = @ + n, !.events = @ + 1,
                                     !.handed = @ \o st.handed]
        /\ UNCHANGED <<signalState, currentPhase, phaseStartTime,
                       currentPhaseDuration, isInYellow, lastBroadcastState,
                       now, ret, nextClientId, calc, pending, sockets>>

NextStream == StreamData

SpecStream == InitStream /\ [][NextStream]_vars

(* ------------------- broadcasts on their way to the clients ------------ *)

\* socket.write putting the message ahead of those already written
socketWrite_jumpsQueue(queue, message) == <<message>> \o queue
\* socket.write(message, callback): the message joins what the socket has
\* still to send
socketWrite(queue, message) == Append(queue, message)

\* the broadcast callback of the timer; every client it writes to has the
\* broadcast, numbered in the order of production, added to its socket
BroadcastSend ==
  /\ "broadcast" \in pending
  /\ broadcastCallback
  /\ pending' = pending \ {"broadcast"}
  /\ sockets' =
       IF hasStateChangedValue
         THEN [produced |-> sockets.produced + 1,
               inflight |-> [id \in ClientIds |->
                               IF outbox'[id] # <<>>
                                 THEN socketWrite(sockets.inflight[id],
                                                  sockets.produced + 1)
                                 ELSE sockets.inflight[id]],
               got |-> sockets.got]
         ELSE sockets

\* the callback of socket.write without an error: the oldest message of the
\* socket has been sent
WriteCompletes ==
  /\ ~crashed
  /\ \E id \in ClientIds :
       /\ sockets.inflight[id] # <<>>
       /\ sockets' = [sockets EXCEPT !.inflight[id] = Tail(@),
                                      !.got[id] = Head(sockets.inflight[id])]
  /\ outbox' = NoFrames
  /\ UNCHANGED <<ctlVars, now, ret, clients, nextClientId, crashed, calc,
                 pending, stream>>

NextOrder ==
  \/ TimerTick
  \/ PhaseTimer
  \/ BroadcastSend
  \/ WriteCompletes
  \/ HandleNewConnection

SpecOrder == Init /\ [][NextOrder]_vars

(* -------------------- connections arriving one after another ----------- *)

\* connections arrive, one more than MAX_CONNECTIONS, and none leaves
MaxAccepted == 101

AcceptConnection == handleNewConnection(MaxAccepted)

NextAccept == AcceptConnection

SpecAccept == Init /\ [][NextAccept]_vars

(* ------------------------------ properties ----------------------------- *)


NonRed(r) == signalState[r] # RED
PairNonRed(r1, r2) == NonRed(r1) /\ NonRed(r2)
PairRed(r1, r2) == ~NonRed(r1) /\ ~NonRed(r2)

\* C1: in every reachable state exactly one of the pairs {A,C}, {B,D} has
\* both routes non-RED and the other pair has both routes RED.
C1_ExactlyOnePairNonRed ==
  \/ PairNonRed("A", "C") /\ PairRed("B", "D")
  \/ PairNonRed("B", "D") /\ PairRed("A", "C")

\* C2: a route of {A,C} and a route of {B,D} are never non-RED together.
C2_NeverBothPairsNonRed ==
  ~((NonRed("A") \/ NonRed("C")) /\ (NonRed("B") \/ NonRed("D")))

C2_Witness ==
  /\ signalState["B"] = GREEN
  /\ signalState["D"] = GREEN
  /\ ret.op = "updateTrafficData"

\* the cycle of the claim
CycleSuccessor(phase) ==
  CASE phase = PHASE_AC_GREEN -> PHASE_AC_YELLOW
    [] phase = PHASE_AC_YELLOW -> PHASE_BD_GREEN
    [] phase = PHASE_BD_GREEN -> PHASE_BD_YELLOW
    [] phase = PHASE_BD_YELLOW -> PHASE_AC_GREEN

\* C3: the controller starts in PHASE_AC_GREEN, and a call of updatePhase()
\* either leaves the phase alone (returning false) or moves it to its
\* successor in the cycle AC_GREEN -> AC_YELLOW -> BD_GREEN -> BD_YELLOW ->
\* AC_GREEN (returning true), however late the call comes: one transition
\* per call, no phase skipped, none repeated.
C3_PhaseCycle ==
  /\ currentPhase = PHASE_AC_GREEN
  /\ [][ret'.op = "updatePhase" =>
          IF ret'.val = "true"
            THEN currentPhase' = CycleSuccessor(currentPhase)
            ELSE currentPhase' = currentPhase]_vars

\* a whole cycle has been walked (14 s at the earliest), with a late call
C3_Witness ==
  /\ ret = [op |-> "updatePhase", val |-> "true"]
  /\ currentPhase = PHASE_AC_GREEN
  /\ now >= 15000

\* C4: updatePhase() changes nothing and returns false whenever
\* now - phaseStartTime, in milliseconds, is less than currentPhaseDuration
\* seconds.
C4_NoOpBeforeDuration ==
  [][(ret'.op = "updatePhase" /\ now - phaseStartTime < currentPhaseDuration * 1000)
       => (UNCHANGED ctlVars /\ ret'.val = "false")]_vars

IsGreenPhase(phase) == phase \in {PHASE_AC_GREEN, PHASE_BD_GREEN}

\* C8: currentPhaseDuration is in [MIN_GREEN, MAX_GREEN] in a green phase
\* and is YELLOW_DURATION in a yellow phase, in every reachable state.
C8_DurationBounds ==
  IF IsGreenPhase(currentPhase)
    THEN MIN_GREEN <= currentPhaseDuration /\ currentPhaseDuration <= MAX_GREEN
    ELSE currentPhaseDuration = YELLOW_DURATION

BroadcastFramesOf(id) ==
  {i \in 1..Len(outbox[id]) : outbox[id][i].origin = "broadcast"}

\* C5: a connected session that never sent a valid SUBSCRIBE, its
\* subscription set being empty, is written no frame by the broadcast loop.
C5_NoBroadcastWithoutSubscribe ==
  \A id \in DOMAIN clients :
    (~clients[id].sentSubscribe /\ clients[id].subscribedRoutes = {})
      => BroadcastFramesOf(id) = {}

\* C6: whatever line a session sends, no exception escapes
\* handleClientData.
C6_NoExceptionEscapes == ~crashed

\* the messages of InboundMessages that fail parsing or validation:
\* malformed JSON, no or unknown type, bad CAMERA_UPDATE data or entry,
\* a route outside ROUTES, routes of a wrong kind, a bad queryType
InvalidMessageIds == {1, 2, 3, 4, 5, 6, 7, 10, 13, 16, 17}

\* C7: a complete non-blank line from a registered session that fails
\* parsing or validation yields exactly one ERROR frame to that session
\* and changes neither the controller nor any subscription set.
C7_InvalidLineOneErrorNoChange ==
  [][\A id \in ClientIds, i \in InvalidMessageIds :
       (/\ id \in DOMAIN clients
        /\ clients[id].bufferedData = <<>>
        /\ HandleClientData(id, <<i, NL>>))
         => /\ outbox' = [NoFrames EXCEPT ![id] = <<ErrorFrame>>]
            /\ UNCHANGED ctlVars
            /\ DOMAIN clients' = DOMAIN clients
            /\ \A j \in DOMAIN clients :
                 clients'[j].subscribedRoutes = clients[j].subscribedRoutes
            /\ ~crashed']_vars

\* the demand a caller's value counts as: negative and non-numeric are 0
DemandOf(x) == IF x.t = "num" /\ x.n > 0 THEN x.n ELSE 0
PairACDemand == DemandOf(calc.demandA) + DemandOf(calc.demandC)
PairBDDemand == DemandOf(calc.demandB) + DemandOf(calc.demandD)

C10_EqualPairsGive27 ==
  (calc.called /\ PairACDemand = PairBDDemand) => calc.result = 27

\* C10 amended: equal pair demands that are not both zero give 27, and
\* two zero pair demands give MIN_GREEN.
C10_EqualNonZeroPairsGive27 ==
  (calc.called /\ PairACDemand = PairBDDemand)
    => calc.result = (IF PairACDemand = 0 THEN MIN_GREEN ELSE 27)

\* a call with equal non-zero pair demands made of different route demands
C10_Witness ==
  /\ calc.called
  /\ PairACDemand = PairBDDemand
  /\ PairACDemand > 0
  /\ calc.demandA # calc.demandB
  /\ calc.demandA # calc.demandD

\* a green phase whose duration was computed from non-zero demand
C8_Witness ==
  /\ currentPhase = PHASE_BD_GREEN
  /\ currentPhaseDuration > MIN_GREEN
  /\ ret.op = "updatePhase"

\* the reference demand of a stored sample, vehicles + 2.5 * heavyVehicles,
\* taken twice to stay in the integers
TwiceRefDemand(sample) == 2 * sample.vehicles + 5 * sample.heavyVehicles
TwiceRefPairDemand(r1, r2) ==
  TwiceRefDemand(trafficData[r1]) + TwiceRefDemand(trafficData[r2])

\* r is num/den rounded to the nearest integer, for den > 0
IsRounded(r, num, den) ==
  (2 * r - 1) * den <= 2 * num /\ 2 * num < (2 * r + 1) * den

\* r is the reference duration for the demand P of the pair turning green
\* and the demand Q of the other pair:
\* round(MIN_GREEN + (MAX_GREEN - MIN_GREEN) * (P / (P + Q)) * 0.8)
IsReferenceDuration(r, P, Q) ==
  IF P + Q = 0
    THEN r = MIN_GREEN
    ELSE IsRounded(r, 10 * MIN_GREEN * (P + Q) + 8 * (MAX_GREEN - MIN_GREEN) * P,
                   10 * (P + Q))

\* C11: the duration given to a green phase at its yellow->green
\* transition is the reference value for the stored samples, and for the
\* samples A {30,5}, C {25,4}, B {2,0}, D {3,0} PHASE_AC_GREEN gets 46 s.
C11_GreenDurationIsReference ==
  (ret = [op |-> "updatePhase", val |-> "true"] /\ IsGreenPhase(currentPhase))
    => /\ IF currentPhase = PHASE_AC_GREEN
            THEN IsReferenceDuration(currentPhaseDuration,
                                     TwiceRefPairDemand("A", "C"),
                                     TwiceRefPairDemand("B", "D"))
            ELSE IsReferenceDuration(currentPhaseDuration,
                                     TwiceRefPairDemand("B", "D"),
                                     TwiceRefPairDemand("A", "C"))
       /\ (trafficData = ExampleTraffic /\ currentPhase = PHASE_AC_GREEN)
            => currentPhaseDuration = 46

\* the transition into PHASE_AC_GREEN on the samples of the example
C11_Witness ==
  /\ ret = [op |-> "updatePhase", val |-> "true"]
  /\ currentPhase = PHASE_AC_GREEN
  /\ trafficData = ExampleTraffic
  /\ currentPhaseDuration > MIN_GREEN

\* C12: updateTrafficData with a valid route changes the sample of one
\* route and nothing else: phase, colors, duration, start time, broadcast
\* marker and the three other samples stay as they are.
C12_UpdateChangesOneSample ==
  [][(ret'.op = "updateTrafficData" /\ ret'.val = "undefined")
       => /\ UNCHANGED <<signalState, currentPhase, phaseStartTime,
                         currentPhaseDuration, isInYellow, lastBroadcastState>>
          /\ \E r \in Routes :
               \A q \in Routes \ {r} : trafficData'[q] = trafficData[q]]_vars

\* an update of B during a PHASE_BD_GREEN whose duration was committed
\* when B and D had no demand
C12_Witness ==
  /\ ret = [op |-> "updateTrafficData", val |-> "undefined"]
  /\ currentPhase = PHASE_BD_GREEN
  /\ currentPhaseDuration = MIN_GREEN
  /\ trafficData["B"].vehicles > 0

\* the routes that are not RED in a phase
PairRoutes(phase) ==
  IF phase \in {PHASE_AC_GREEN, PHASE_AC_YELLOW} THEN {"A", "C"} ELSE {"B", "D"}

\* the yellow phase that ends the current green phase
YellowAfterCurrent == nextPhase(FALSE, currentPhase)

\* a step of updateTrafficData during a green phase that changes the
\* sample of route r
UpdateInGreen(r) ==
  /\ ret'.op = "updateTrafficData"
  /\ IsGreenPhase(currentPhase)
  /\ trafficData'[r] # trafficData[r]

\* C13: after updateTrafficData for a route r during a green phase, every
\* phase that begins before the next GREEN phase of r's pair gets the
\* duration it would have got without the update: the yellow phase that
\* follows and, for r in the pair that is green now, the GREEN phase of
\* the other pair.
C13_NoEffectBeforeOwnPairGreen ==
  [][\A r \in Routes : UpdateInGreen(r)
       => /\ currentPhaseDuration' = currentPhaseDuration
          /\ nextPhaseDuration(FALSE, currentPhase, trafficData')
               = nextPhaseDuration(FALSE, currentPhase, trafficData)
          /\ r \in PairRoutes(currentPhase)
               => nextPhaseDuration(TRUE, YellowAfterCurrent, trafficData')
                    = nextPhaseDuration(TRUE, YellowAfterCurrent, trafficData)]_vars

\* C13 amended: the current green phase and the yellow phase that follows
\* keep the durations they have without the update, and the update is
\* first used at the next yellow->green transition: the GREEN phase of
\* the pair that is RED now gets the reference duration of the samples
\* with the update in them, whichever pair r belongs to.
C13_EffectAtNextGreenTransition ==
  [][\A r \in Routes : UpdateInGreen(r)
       => /\ currentPhaseDuration' = currentPhaseDuration
          /\ nextPhaseDuration(FALSE, currentPhase, trafficData')
               = nextPhaseDuration(FALSE, currentPhase, trafficData)
          /\ IF currentPhase = PHASE_AC_GREEN
               THEN IsReferenceDuration(
                      nextPhaseDuration(TRUE, YellowAfterCurrent, trafficData'),
                      TwiceRefPairDemand("B", "D")', TwiceRefPairDemand("A", "C")')
               ELSE IsReferenceDuration(
                      nextPhaseDuration(TRUE, YellowAfterCurrent, trafficData'),
                      TwiceRefPairDemand("A", "C")', TwiceRefPairDemand("B", "D")')]_vars

\* an update of A during PHASE_AC_GREEN while B has demand: the coming
\* PHASE_BD_GREEN is shortened by it
C13_Witness ==
  /\ ret = [op |-> "updateTrafficData", val |-> "undefined"]
  /\ currentPhase = PHASE_AC_GREEN
  /\ signalState["A"] = GREEN
  /\ trafficData["A"].vehicles > 0
  /\ trafficData["B"].vehicles > 0
  /\ nextPhaseDuration(TRUE, PHASE_AC_YELLOW, trafficData)
       < nextPhaseDuration(TRUE, PHASE_AC_YELLOW,
                           [trafficData EXCEPT !["A"] = NoTraffic["A"]])

\* C14: the duration of a green phase is the reference value of the four
\* samples stored at the yellow->green transition that starts it, and no
\* later call but the transition ending the phase (or reset) changes it.
C14_DurationFixedAtTransition ==
  [][/\ (ret'.op = "updatePhase" /\ ret'.val = "true" /\ isInYellow)
          => IF currentPhase' = PHASE_AC_GREEN
               THEN IsReferenceDuration(currentPhaseDuration',
                                        TwiceRefPairDemand("A", "C"),
                                        TwiceRefPairDemand("B", "D"))
               ELSE IsReferenceDuration(currentPhaseDuration',
                                        TwiceRefPairDemand("B", "D"),
                                        TwiceRefPairDemand("A", "C"))
     /\ (ret'.op \notin {"updatePhase", "reset"} \/ ret'.val = "false")
          => /\ currentPhase' = currentPhase
             /\ currentPhaseDuration' = currentPhaseDuration]_vars

\* a PHASE_BD_GREEN given 49 s when A and C had no demand, and an update
\* of A after the transition
C14_Witness ==
  /\ ret = [op |-> "updateTrafficData", val |-> "undefined"]
  /\ currentPhase = PHASE_BD_GREEN
  /\ currentPhaseDuration = 49
  /\ trafficData["A"].vehicles > 0

ColorsAtMarker == JSONstringify(signalState) = lastBroadcastState

\* C15: a run of the broadcast loop writes broadcast frames exactly when
\* the colors differ from the last-broadcast marker (none to any session
\* when they are equal, one to every subscribed session when they differ)
\* and leaves the marker at the colors; and while the phase does not
\* change, nothing (update, query, subscribe, connection) makes the colors
\* differ from the marker.
C15_BroadcastIffColorsChanged ==
  [][/\ BroadcastLoop
          => /\ ColorsAtMarker
                  => \A id \in ClientIds : BroadcastFramesOf(id)' = {}
             /\ ~ColorsAtMarker
                  => \A id \in DOMAIN clients :
                       clients[id].subscribedRoutes # {}
                         => Cardinality(BroadcastFramesOf(id)') = 1
             /\ ColorsAtMarker'
     /\ (ColorsAtMarker /\ currentPhase' = currentPhase) => ColorsAtMarker']_vars

\* a broadcast to a subscribed session after traffic updates
C15_Witness ==
  /\ \E id \in DOMAIN clients :
       /\ clients[id].subscribedRoutes # {}
       /\ BroadcastFramesOf(id) # {}
  /\ trafficData # NoTraffic
  /\ ColorsAtMarker

\* C17: the color of a route only changes GREEN -> YELLOW, YELLOW -> RED
\* or RED -> GREEN.
C17_ColorOrder ==
  [][\A r \in Routes :
       signalState'[r] # signalState[r]
         => <<signalState[r], signalState'[r]>>
              \in {<<GREEN, YELLOW>>, <<YELLOW, RED>>, <<RED, GREEN>>}]_vars

\* two values are the same record
SameData(a, b) == DOMAIN a = DOMAIN b /\ a = b

\* the data of the reply to a QUERY of session id in the current state
QueryReplyData(id, queryType) ==
  handleQuery(HandlerState, id, queryType).outbox[id][1].data

\* C18: the data of every frame of the broadcast loop is the data of a
\* QUERY "status" reply computed in the same controller state.
C18_BroadcastDataIsStatus ==
  \A id \in DOMAIN clients : \A i \in BroadcastFramesOf(id) :
    SameData(outbox[id][i].data, QueryReplyData(id, "status"))

\* C18 amended: it is the data of a QUERY "phase" reply computed in the
\* same controller state: phase, colors, elapsed, total and remaining
\* seconds and the yellow flag, without samples and demands.
C18_BroadcastDataIsPhaseInfo ==
  \A id \in DOMAIN clients : \A i \in BroadcastFramesOf(id) :
    SameData(outbox[id][i].data, QueryReplyData(id, "phase"))

\* a broadcast of PHASE_BD_GREEN reaching a session after a traffic update
C18_Witness ==
  /\ \E id \in DOMAIN clients :
       /\ BroadcastFramesOf(id) # {}
       /\ outbox[id][1].data.phase = PHASE_BD_GREEN
  /\ trafficData # NoTraffic

\* C16: no update is missed or duplicated.  A phase transition finds the
\* colors of the transition before it already broadcast (the marker is at
\* the colors) and leaves colors to broadcast; the run of the broadcast
\* timer that finds the marker behind writes one frame, carrying the
\* current phase and colors, to every active session with a subscription
\* and moves the marker; a run that finds the marker at the colors writes
\* nothing.
C16_OneBroadcastPerTransition ==
  [][/\ currentPhase' # currentPhase
          => (ColorsAtMarker /\ ~ColorsAtMarker')
     /\ BroadcastTimer
          => IF ColorsAtMarker
               THEN \A id \in ClientIds : BroadcastFramesOf(id)' = {}
               ELSE /\ ColorsAtMarker'
                    /\ \A id \in DOMAIN clients :
                         (clients[id].isActive /\ clients[id].subscribedRoutes # {})
                           => /\ Cardinality(BroadcastFramesOf(id)') = 1
                              /\ \A i \in BroadcastFramesOf(id)' :
                                   /\ outbox'[id][i].data.phase = currentPhase
                                   /\ outbox'[id][i].data.signalState = signalState]_vars

\* the broadcast of the second transition reaching two subscribed sessions
C16_Witness ==
  /\ \A id \in ClientIds :
       /\ id \in DOMAIN clients
       /\ clients[id].subscribedRoutes # {}
       /\ BroadcastFramesOf(id) # {}
       /\ outbox[id][1].data.phase = PHASE_BD_GREEN
  /\ currentPhase = PHASE_BD_GREEN
  /\ ColorsAtMarker

\* the valid SUBSCRIBE and UNSUBSCRIBE messages of InboundMessages
SubscriptionMessageIds == {9, 11, 12}

\* handling the message of a step once more, in the state the step reached
HandledAgain(id, result) ==
  IF result.type = SUBSCRIBE
    THEN handleSubscribe(HandlerState', id, result.routes)
    ELSE handleUnsubscribe(HandlerState', id, result.routes)

\* C19: a valid SUBSCRIBE makes the session's set its union with the
\* routes and a valid UNSUBSCRIBE its difference; the reply is one STATUS
\* frame also when the set does not change; no other session's set
\* changes; and handling the same message again leaves the set as it is
\* and is answered with STATUS again.
C19_SubscribeUnionUnsubscribeDifference ==
  [][\A id \in ClientIds, i \in SubscriptionMessageIds :
       (/\ id \in DOMAIN clients
        /\ clients[id].bufferedData = <<>>
        /\ HandleClientData(id, <<i, NL>>))
         => LET result == processIncomingMessage(InboundMessages[i])
                routes == SeqToSet(result.routes)
            IN  /\ clients'[id].subscribedRoutes =
                     IF result.type = SUBSCRIBE
                       THEN clients[id].subscribedRoutes \cup routes
                       ELSE clients[id].subscribedRoutes \ routes
                /\ Len(outbox'[id]) = 1
                /\ outbox'[id][1].type = STATUS
                /\ \A j \in DOMAIN clients \ {id} :
                     /\ clients'[j].subscribedRoutes = clients[j].subscribedRoutes
                     /\ outbox'[j] = <<>>
                /\ HandledAgain(id, result).clients[id].subscribedRoutes
                     = clients'[id].subscribedRoutes
                /\ HandledAgain(id, result).outbox[id][1].type = STATUS]_vars

\* an UNSUBSCRIBE of a session that is subscribed to nothing, acknowledged,
\* next to a session that keeps its subscriptions
C19_Witness ==
  \E id \in DOMAIN clients, j \in DOMAIN clients :
    /\ ~clients[id].sentSubscribe
    /\ clients[id].subscribedRoutes = {}
    /\ outbox[id] = <<ReplyFrame("unsubscribed")>>
    /\ clients[j].subscribedRoutes = {"B", "C", "D"}

\* C20: getSubscribedClients(null) is the set of the sessions of the table
\* with a non-empty subscription set, and getSubscribedClients(routes) the
\* set of those whose subscription set intersects routes.
C20_SubscribedClientsOfTable ==
  /\ getSubscribedClients(clients, FALSE, {})
       = {id \in DOMAIN clients : clients[id].subscribedRoutes # {}}
  /\ \A routes \in SUBSET Routes :
       getSubscribedClients(clients, TRUE, routes)
         = {id \in DOMAIN clients : clients[id].subscribedRoutes \cap routes # {}}

\* C20 amended: the same, of the sessions of the table that are active; a
\* session marked inactive after a failed write is in neither result.
C20_SubscribedActiveClients ==
  /\ \A id \in DOMAIN clients :
       id \in getSubscribedClients(clients, FALSE, {})
         <=> (clients[id].isActive /\ clients[id].subscribedRoutes # {})
  /\ getSubscribedClients(clients, FALSE, {}) \subseteq DOMAIN clients
  /\ \A routes \in SUBSET Routes :
       /\ \A id \in DOMAIN clients :
            id \in getSubscribedClients(clients, TRUE, routes)
              <=> /\ clients[id].isActive
                  /\ \E r \in routes : r \in clients[id].subscribedRoutes
       /\ getSubscribedClients(clients, TRUE, routes) \subseteq DOMAIN clients

\* a subscribed session marked inactive and still in the table, next to
\* an active session subscribed to fewer routes
C20_Witness ==
  \E id \in DOMAIN clients, j \in DOMAIN clients :
    /\ ~clients[id].isActive
    /\ clients[id].subscribedRoutes = Routes
    /\ clients[j].isActive
    /\ clients[j].subscribedRoutes = {"B", "C", "D"}

\* C21: accepting a connection writes exactly one frame, to the new session
\* only: the welcome STATUS frame carrying the id the session was
\* registered under; the session starts active with no subscription. No
\* frame is ever written to a session before that step, and no later step
\* writes a welcome, so the welcome is the first frame the session receives
\* and the only welcome.
IsWelcome(frame) == frame.origin = "welcome"
C21_WelcomeFirst ==
  [][\A id \in ClientIds :
       /\ (id \notin DOMAIN clients /\ id \in DOMAIN clients') =>
            /\ \A other \in ClientIds \ {id} : outbox'[other] = <<>>
            /\ Len(outbox'[id]) = 1
            /\ IsWelcome(outbox'[id][1])
            /\ outbox'[id][1].type = STATUS
            /\ outbox'[id][1].data = [clientId |-> id]
            /\ clients'[id].subscribedRoutes = {}
            /\ clients'[id].isActive
       /\ (id \notin DOMAIN clients /\ outbox'[id] # <<>>) =>
            id \in DOMAIN clients'
       /\ (\E n \in 1..Len(outbox'[id]) : IsWelcome(outbox'[id][n])) =>
            (id \notin DOMAIN clients /\ id \in DOMAIN clients')]_vars
C21_Witness ==
  /\ 2 \in DOMAIN clients
  /\ Len(outbox[2]) = 1 /\ IsWelcome(outbox[2][1])
  /\ outbox[2][1].data.clientId = 2
  /\ outbox[1] = <<>>
  /\ clients[2].subscribedRoutes = {}
  /\ 1 \in DOMAIN clients /\ clients[1].subscribedRoutes # {}

\* C22: session ids are handed out from a counter that starts at 1 and only
\* grows: a newly registered session gets the counter's value, which is
\* greater than the id of every session registered before it (those still
\* in the table and those removed, all below the counter), and the counter
\* moves past it. Removing sessions, one by one or all at once, never moves
\* the counter back.
C22_IdsStrictlyIncreasing ==
  [][/\ nextClientId' >= nextClientId
     /\ \A id \in DOMAIN clients' : id < nextClientId'
     /\ \A id \in DOMAIN clients' \ DOMAIN clients :
          /\ id = nextClientId
          /\ nextClientId' = id + 1
          /\ \A old \in DOMAIN clients : old < id]_vars
\* the second session accepted after the first was removed
C22_Witness ==
  /\ DOMAIN clients = {2}
  /\ nextClientId = 3
  /\ Len(outbox[2]) = 1 /\ outbox[2][1].data = [clientId |-> 2]

\* the lines of a text that end with a newline, and what follows the last
\* newline
RECURSIVE TerminatedLines(_)
TerminatedLines(text) ==
  IF \A i \in 1..Len(text) : text[i] # NL THEN <<>>
  ELSE LET p == CHOOSE i \in 1..Len(text) :
                  text[i] = NL /\ \A j \in 1..(i - 1) : text[j] # NL
       IN  <<SubSeq(text, 1, p - 1)>>
             \o TerminatedLines(SubSeq(text, p + 1, Len(text)))
Unterminated(text) ==
  LET ends == {i \in 1..Len(text) : text[i] = NL}
      last == IF ends = {} THEN 0
              ELSE CHOOSE i \in ends : \A j \in ends : j <= i
  IN  SubSeq(text, last + 1, Len(text))
NonBlankLines(lines) ==
  SelectSeq(lines, LAMBDA l : \E i \in 1..Len(l) : l[i] # SP)
Arrived == SubSeq(stream.whole, 1, stream.sent)

\* C23: however the text of a client is cut into 'data' events, after each
\* event the lines handed to processClientMessage so far are the non-blank
\* newline-terminated lines of the text that has arrived, in their order,
\* the session's buffer holds what follows the last newline, and no buffer
\* holds a newline.
C23_LinesIndependentOfChunks ==
  /\ stream.handed = NonBlankLines(TerminatedLines(Arrived))
  /\ clients[1].bufferedData = Unterminated(Arrived)
  /\ \A id \in DOMAIN clients :
       \A i \in 1..Len(clients[id].bufferedData) :
         clients[id].bufferedData[i] # NL
\* a line that arrived in three events and a fragment in a fourth
C23_Witness ==
  /\ stream.whole = <<SP, 15, NL, 9>>
  /\ stream.sent = 4
  /\ stream.events = 4
  /\ stream.handed = << <<SP, 15>> >>
  /\ clients[1].bufferedData = <<9>>

\* the lines completed by the event of a step, in the order of the text
NewLines ==
  LET before == NonBlankLines(TerminatedLines(Arrived))
      after == NonBlankLines(TerminatedLines(Arrived'))
  IN  SubSeq(after, Len(before) + 1, Len(after))
\* the lines handled one after the other, each on the state the one before
\* it left
RECURSIVE OneByOne(_, _)
OneByOne(st, lines) ==
  IF lines = <<>> THEN st
  ELSE processClientMessage(OneByOne(st, SubSeq(lines, 1, Len(lines) - 1)),
                            1, LineMessage(lines[Len(lines)]))
\* what the reply to a line of the stream says
ReplyBodyOf(line) ==
  LET texts == SelectSeq(line, LAMBDA t : t # SP)
  IN  IF texts = <<8>> THEN "accepted"
      ELSE IF texts = <<9>> THEN "subscribed"
      ELSE IF texts = <<15>> THEN "traffic"
      ELSE "INVALID_MESSAGE"

\* C24: the lines that one 'data' event completes are applied in the order
\* of the text, each to the state left by the line before it, and the
\* replies the event writes to the session are the replies to those lines
\* in that same order, one per line; so a QUERY that follows a
\* CAMERA_UPDATE in the same event is answered with the updated samples.
C24_AppliedAndAnsweredInOrder ==
  [][LET st == OneByOne(HandlerState, NewLines)
     IN  /\ Len(outbox'[1]) = Len(NewLines)
         /\ \A n \in 1..Len(NewLines) :
              outbox'[1][n].body = ReplyBodyOf(NewLines[n])
         /\ outbox'[1] = st.outbox[1]
         /\ trafficData' = st.trafficData
         /\ clients'[1].subscribedRoutes = st.clients[1].subscribedRoutes]_vars
\* an update and a query of the traffic in one event: the acknowledgement,
\* then the samples with the update in them
C24_Witness ==
  /\ stream.whole = <<8, NL, 15, NL>>
  /\ stream.events = 1
  /\ Len(outbox[1]) = 2
  /\ outbox[1][1] = ReplyFrame("accepted")
  /\ outbox[1][2].body = "traffic"
  /\ outbox[1][2].data.trafficData = trafficData
  /\ trafficData # NoTraffic

\* C25: broadcasts are numbered in the order they are produced. What a
\* socket has still to send is in increasing order and later than what its
\* client already received, and the number a client received last only
\* grows: a client that receives two broadcasts receives them in the order
\* of production, also when a broadcast is written while the write
\* callbacks of the one before are outstanding.
InProductionOrder(id) ==
  LET q == sockets.inflight[id]
  IN  /\ \A i \in 1..Len(q) : sockets.got[id] < q[i] /\ q[i] <= sockets.produced
      /\ \A i, j \in 1..Len(q) : i < j => q[i] < q[j]
C25_BroadcastsArriveInOrder ==
  /\ [](\A id \in ClientIds : InProductionOrder(id))
  /\ [][\A id \in ClientIds : sockets'.got[id] >= sockets.got[id]]_vars
\* two broadcasts on their way to a client while it has received none, and
\* a client that received the second broadcast after the first
C25_Witness ==
  /\ Len(sockets.inflight[1]) = 2
  /\ sockets.got[1] = 0
  /\ sockets.got[2] = 2
  /\ sockets.inflight[2] = <<>>

ValidStreamMessageIds == {8, 9, 15}

\* C26: an event that writes an ERROR reply leaves the session registered
\* under its id, active, its socket open and the server running; when the
\* rejected line is all the event completed, the subscription set and the
\* samples are as before; valid lines after it in the same event get their
\* STATUS reply, and each valid message handled next on that connection
\* gets its one STATUS reply.
C26_OpenAfterError ==
  [][\A n \in 1..Len(outbox'[1]) :
       outbox'[1][n].type = ERROR =>
         /\ 1 \in DOMAIN clients /\ 1 \in DOMAIN clients'
         /\ clients'[1].isActive
         /\ clients'[1].socket = "open"
         /\ ~crashed'
         /\ Len(NewLines) = 1 =>
              /\ clients'[1].subscribedRoutes = clients[1].subscribedRoutes
              /\ trafficData' = trafficData
         /\ \A m \in (n + 1)..Len(NewLines) :
              ReplyBodyOf(NewLines[m]) # "INVALID_MESSAGE" =>
                /\ m <= Len(outbox'[1])
                /\ outbox'[1][m].type = STATUS
         /\ \A i \in ValidStreamMessageIds :
              LET st == processClientMessage(HandlerState', 1, InboundMessages[i])
              IN  /\ Len(st.outbox[1]) = 1
                  /\ st.outbox[1][1].type = STATUS
                  /\ st.outbox[1][1].body = ReplyBodyOf(<<i>>)]_vars
\* a SUBSCRIBE to an unknown route was rejected in a first event; the
\* SUBSCRIBE that followed it in a second event was handled
C26_Witness ==
  /\ stream.whole = <<10, NL, 9, NL>>
  /\ stream.events = 2
  /\ stream.handed = << <<10>>, <<9>> >>
  /\ outbox[1] = <<ReplyFrame("subscribed")>>
  /\ clients[1].subscribedRoutes = Routes

IsMalformedJSON(line) == LineMessage(line) = JsonText("malformed")

\* C27: a line that is not valid JSON is silently ignored: the frames an
\* event writes to the session are one per completed line that is valid
\* JSON, and none for a line that is not.
C27_MalformedJSONIgnored ==
  [][Len(outbox'[1]) =
       Cardinality({n \in 1..Len(NewLines) : ~IsMalformedJSON(NewLines[n])})]_vars

ValidMessageIds == {8, 9, 11, 12, 14, 15, 18, 19}
\* the reply a valid message is due: the acknowledgement of its type, or
\* the data its queryType asks for
ReplyDue(i) ==
  IF i = 8 THEN [type |-> STATUS, origin |-> "reply", body |-> "accepted"]
  ELSE IF i \in {9, 11}
    THEN [type |-> STATUS, origin |-> "reply", body |-> "subscribed"]
  ELSE IF i = 12
    THEN [type |-> STATUS, origin |-> "reply", body |-> "unsubscribed"]
  ELSE IF i = 18
    THEN [type |-> STATUS, origin |-> "reply", body |-> "phase",
          data |-> getPhaseInfo]
  ELSE IF i = 15
    THEN [type |-> STATUS, origin |-> "reply", body |-> "traffic",
          data |-> [trafficData |-> trafficData,
                    demands |-> calculateAllDemands(trafficData)]]
  ELSE [type |-> STATUS, origin |-> "reply", body |-> "status",
        data |-> [phase |-> getPhaseInfo, traffic |-> trafficData,
                  demands |-> calculateAllDemands(trafficData),
                  signals |-> signalState]]

\* C28: in every state of the running server, handling a valid message that
\* arrives on a line of its own from a registered session with nothing
\* buffered writes exactly one frame, a STATUS reply to that session and
\* nothing to any other: the acknowledgement for CAMERA_UPDATE, SUBSCRIBE
\* and UNSUBSCRIBE; for QUERY the full status when queryType is status or
\* absent, the phase info for phase, the samples and demands for traffic.
C28_OneStatusReply ==
  \A id \in DOMAIN clients, i \in ValidMessageIds :
    (~crashed /\ clients[id].bufferedData = <<>>)
      => handleClientData(HandlerState, id, <<i, NL>>).outbox
           = [NoFrames EXCEPT ![id] = <<ReplyDue(i)>>]
\* a QUERY without queryType answered with the full status while another
\* session is registered
C28_Witness ==
  /\ DOMAIN clients = {1, 2}
  /\ outbox[1] = <<>>
  /\ Len(outbox[2]) = 1
  /\ outbox[2][1].type = STATUS
  /\ outbox[2][1].body = "status"
  /\ DOMAIN outbox[2][1].data = {"phase", "traffic", "demands", "signals"}
  /\ trafficData # NoTraffic

IsQueryReply(frame) ==
  frame.origin = "reply" /\ frame.body \in {"status", "phase", "traffic"}
\* the step wrote to id the replies to QUERY messages and nothing else
AnsweredQueriesOf(id) ==
  /\ outbox'[id] # <<>>
  /\ \A n \in 1..Len(outbox'[id]) : IsQueryReply(outbox'[id][n])

\* C29: a step in which the server only answers QUERY messages of a
\* session, with getStatus, getPhaseInfo or the samples and demands, leaves
\* the controller's phase, colors, samples, duration, phase start and
\* last-broadcast marker as they were and every session registered with
\* its subscription set; whether the broadcast loop has something to send
\* is the same after the query as before it.
C29_QueryChangesNothing ==
  [][\A id \in ClientIds :
       AnsweredQueriesOf(id) =>
         /\ signalState' = signalState
         /\ trafficData' = trafficData
         /\ currentPhase' = currentPhase
         /\ phaseStartTime' = phaseStartTime
         /\ currentPhaseDuration' = currentPhaseDuration
         /\ isInYellow' = isInYellow
         /\ lastBroadcastState' = lastBroadcastState
         /\ hasStateChangedValue' = hasStateChangedValue
         /\ DOMAIN clients' = DOMAIN clients
         /\ \A j \in DOMAIN clients :
              clients'[j].subscribedRoutes = clients[j].subscribedRoutes]_vars
\* a query of the traffic answered while the colors differ from the marker:
\* the broadcast that is due is still due
C29_Witness ==
  /\ Len(outbox[1]) = 1
  /\ outbox[1][1].body = "traffic"
  /\ outbox[1][1].origin = "reply"
  /\ hasStateChangedValue
  /\ trafficData # NoTraffic
  /\ clients[1].subscribedRoutes # {}

\* a step that starts a phase: a transition or a reset
StartsPhase ==
  currentPhase' # currentPhase \/ phaseStartTime' # phaseStartTime

\* C30: the green phase the controller is constructed in lasts MIN_GREEN,
\* and every green phase that starts while all samples are zero, of either
\* pair and in any cycle, is given the duration MIN_GREEN = 5 seconds; with
\* C14 (the duration of a phase is fixed when it starts) every green phase
\* lasts 5 seconds for as long as the samples stay at zero.
C30_ZeroTrafficMinGreen ==
  /\ [](ret.op = "constructor" =>
          (IsGreenPhase(currentPhase) /\ currentPhaseDuration = MIN_GREEN))
  /\ [][(StartsPhase /\ IsGreenPhase(currentPhase') /\ trafficData' = NoTraffic)
          => (currentPhaseDuration' = MIN_GREEN /\ MIN_GREEN = 5)]_vars
\* the second green phase of the pair A, C, after a green phase of the pair
\* B, D, with all samples zero
C30_Witness ==
  /\ trafficData = NoTraffic
  /\ currentPhase = PHASE_AC_GREEN
  /\ phaseStartTime >= 1000 * (2 * MIN_GREEN + 2 * YELLOW_DURATION)
  /\ currentPhaseDuration = MIN_GREEN
  /\ ret = [op |-> "updatePhase", val |-> "true"]

\* C31: the number of registered sessions never exceeds MAX_CONNECTIONS; a
\* connection that arrives while MAX_CONNECTIONS sessions are registered is
\* not added to the table.
C31_AtMostMaxConnections ==
  /\ MAX_CONNECTIONS = 100
  /\ Cardinality(DOMAIN clients) <= MAX_CONNECTIONS

\* C32: after reset(), called in any state, the phase, the four colors, the
\* samples, the phase duration, isInYellow and what the next
\* hasStateChanged() returns are those of a freshly constructed controller
\* (InitController: PHASE_AC_GREEN, the colors of the constructor, no
\* traffic, MIN_GREEN, not in yellow, nothing to broadcast).
C32_ResetGivesConstructedState ==
  [][ret'.op = "reset" =>
       /\ currentPhase' = PHASE_AC_GREEN
       /\ signalState' = AllRed
       /\ trafficData' = NoTraffic
       /\ currentPhaseDuration' = MIN_GREEN
       /\ isInYellow' = FALSE
       /\ hasStateChangedValue' = FALSE]_vars

\* a count as it is to be stored: its integer part when it is a positive
\* number, 0 when it is negative, not a number or missing
StoredCount(x) == IF x.t = "num" /\ x.n > 0 THEN x.n \div 2 ELSE 0

HasStateChangedCall ==
  ret'.op = "hasStateChanged" =>
    /\ ret'.val = (IF JSONstringify(signalState) = lastBroadcastState
                    THEN "false" ELSE "true")
    /\ ret'.val = "true" => lastBroadcastState' = JSONstringify(signalState)
    /\ ret'.val = "false" => lastBroadcastState' = lastBroadcastState
    /\ UNCHANGED <<signalState, trafficData, currentPhase, phaseStartTime,
                   currentPhaseDuration, isInYellow>>

\* C34, as stated: a call of hasStateChanged() behaves as HasStateChangedCall
\* says, it leaves the colors at the marker, and while the phase does not
\* change the colors stay at the marker, so that of two calls with no phase
\* transition between them the second returns false.
C34_ConsumeOnceUntilTransition ==
  /\ [][HasStateChangedCall]_vars
  /\ [][ret'.op = "hasStateChanged" => ColorsAtMarker']_vars
  /\ [][(ColorsAtMarker /\ currentPhase' = currentPhase) => ColorsAtMarker']_vars

\* C34, amended: the same, with reset() counted like a phase transition:
\* of two calls with neither a phase transition nor a reset() between them
\* the second returns false.
C34_ConsumeOnceUntilTransitionOrReset ==
  /\ [][HasStateChangedCall]_vars
  /\ [][ret'.op = "hasStateChanged" => ColorsAtMarker']_vars
  /\ [][(ColorsAtMarker /\ currentPhase' = currentPhase /\ ret'.op # "reset")
          => ColorsAtMarker']_vars
\* a call that returned true in the second green phase of B, D
C34_Witness ==
  /\ ret = [op |-> "hasStateChanged", val |-> "true"]
  /\ currentPhase = PHASE_BD_GREEN
  /\ ColorsAtMarker
  /\ trafficData # NoTraffic

\* the sessions of the table marked inactive
InactiveIds == {id \in DOMAIN clients : ~clients[id].isActive}

\* C35: the callback of a failed write marks the session inactive and
\* changes nothing else: the session stays in the table and every other
\* session is as it was. A session marked inactive is written no frame by
\* any step and no write to it is attempted, neither by a fan-out to all or
\* to the subscribers of any routes nor in answer to its own data, while a
\* fan-out still reaches every other active session; it is never active again; and the step that takes it out
\* of the table is a cleanup run, its own disconnect, or the clearing of the
\* whole table when the server stops.
C35_FailedWriteMarksInactive ==
  /\ [][\A id \in DOMAIN clients :
          (clients[id].writeError /\ id \in DOMAIN clients'
             /\ ~clients'[id].writeError)
            => clients' = [clients EXCEPT ![id].isActive = FALSE,
                                          ![id].writeError = FALSE]]_vars
  /\ [][\A id \in InactiveIds :
          /\ outbox'[id] = <<>>
          /\ id \in DOMAIN clients' => ~clients'[id].isActive
          /\ id \notin DOMAIN clients' =>
               \/ clients' = cleanupInactiveClients(clients, INACTIVITY_THRESHOLD)
               \/ clients' = removeClient(clients, id)
               \/ DOMAIN clients' = {}]_vars
  /\ [](\A id \in InactiveIds :
          /\ \A routes \in SUBSET Routes, hasRoutes \in BOOLEAN :
               LET after == broadcastMessage(HandlerState, BroadcastFrame,
                                             hasRoutes, routes)
               IN  /\ after.outbox[id] = <<>>
                   /\ after.clients[id] = clients[id]
                   /\ \A j \in DOMAIN clients :
                        (clients[j].isActive /\ clients[j].socket = "open"
                           /\ (hasRoutes => clients[j].subscribedRoutes \cap routes # {}))
                          => after.outbox[j] = <<BroadcastFrame>>
          /\ ~clients[id].writeError
          /\ \A data \in TimedDataEvents :
               LET after == handleClientData(HandlerState, id, data)
               IN  /\ after.outbox = NoFrames
                   /\ ~after.clients[id].writeError
                   /\ ~after.clients[id].isActive)
\* one session marked inactive and still in the table next to an active and
\* subscribed one
C35_Witness ==
  \E id \in DOMAIN clients, j \in DOMAIN clients :
    /\ ~clients[id].isActive
    /\ ~clients[id].writeError
    /\ clients[id].socket = "failing"
    /\ clients[id].subscribedRoutes # {}
    /\ clients[j].isActive
    /\ clients[j].socket = "open"
    /\ clients[j].subscribedRoutes # {}

\* the sessions cleanupInactiveClients(threshold) has to keep: the active
\* ones whose last inbound traffic is at most threshold old
KeptBy(threshold) ==
  {id \in DOMAIN clients :
     clients[id].isActive /\ now - clients[id].lastMessageAt <= threshold}

\* C36: a run of cleanupInactiveClients(threshold) leaves in the table
\* exactly the sessions that were active and had inbound traffic within
\* the threshold, each as it was; every session marked inactive or idle
\* longer than the threshold is gone, and the returned count is the number
\* of sessions removed.
C36_CleanupKeepsActiveRecent ==
  [][\A threshold \in CleanupThresholds :
       CleanupInactiveClients(threshold) =>
         /\ DOMAIN clients' = KeptBy(threshold)
         /\ \A id \in DOMAIN clients' : clients'[id] = clients[id]
         /\ \A id \in DOMAIN clients :
              (~clients[id].isActive
                 \/ now - clients[id].lastMessageAt > threshold)
                => id \notin DOMAIN clients'
         /\ ret'.val = Cardinality(DOMAIN clients \ DOMAIN clients')]_vars
\* a run that removed one session, idle for longer than the threshold, and
\* kept the other, idle for the threshold exactly
C36_Witness ==
  /\ ret = [op |-> "cleanupInactiveClients", val |-> 1]
  /\ DOMAIN clients = {2}
  /\ clients[2].isActive
  /\ now - clients[2].lastMessageAt = IdleStep
  /\ nextClientId = 3

\* the colors a phase stands for
ColorsOfPhase(phase) ==
  [r \in Routes |->
     IF r \in {"A", "C"}
       THEN (IF phase = PHASE_AC_GREEN THEN GREEN
             ELSE IF phase = PHASE_AC_YELLOW THEN YELLOW ELSE RED)
       ELSE (IF phase = PHASE_BD_GREEN THEN GREEN
             ELSE IF phase = PHASE_BD_YELLOW THEN YELLOW ELSE RED)]
\* no phase transition has run since the construction
BeforeFirstTransition ==
  currentPhase = PHASE_AC_GREEN /\ phaseStartTime = 0 /\ ~isInYellow
\* the phase and colors a frame reports: those of a broadcast, of a QUERY
\* "phase" reply and of a QUERY "status" reply
ReportsColors(frame) ==
  \/ frame.origin = "broadcast"
  \/ frame.origin = "reply" /\ frame.body \in {"phase", "status"}
PhaseInfoOf(frame) ==
  IF frame.origin = "reply" /\ frame.body = "status" THEN frame.data.phase
  ELSE frame.data
\* colors of one pair green or yellow together and the other pair red, or
\* the colors the constructor leaves, reported before the first transition
ConsistentColors(phase, colors, isBroadcast) ==
  /\ colors["A"] = colors["C"]
  /\ colors["B"] = colors["D"]
  /\ IF colors = [r \in Routes |-> RED]
       THEN ~isBroadcast /\ BeforeFirstTransition
       ELSE colors = ColorsOfPhase(phase)

\* C37: every broadcast and every QUERY reply reports the phase and colors
\* the controller has between two handlers: A and C of one color, B and D
\* of one color, the colors of the reported phase and never the all-RED
\* colors in the middle of applyPhaseSignals (a reply shows all four routes
\* RED only before the first transition, as the constructor left them). The
\* samples of B and D, which the clients update in one message, are the
\* same in every state and in every reply, and the duration of a green
\* phase is computed from such samples.
C37_HandlersAreAtomic ==
  /\ [](\A id \in ClientIds : \A n \in 1..Len(outbox[id]) :
          LET frame == outbox[id][n]
          IN  /\ ReportsColors(frame) =>
                   /\ ConsistentColors(PhaseInfoOf(frame).phase,
                                       PhaseInfoOf(frame).signalState,
                                       frame.origin = "broadcast")
                   /\ PhaseInfoOf(frame).phase = currentPhase
                   /\ PhaseInfoOf(frame).signalState = signalState
              /\ (frame.origin = "reply" /\ frame.body = "status") =>
                   /\ frame.data.signals = frame.data.phase.signalState
                   /\ frame.data.traffic["B"] = frame.data.traffic["D"]
                   /\ frame.data.demands["B"] = frame.data.demands["D"])
  /\ [](trafficData["B"] = trafficData["D"])
  /\ [][(isInYellow /\ ~isInYellow') =>
          /\ trafficData["B"] = trafficData["D"]
          /\ currentPhaseDuration'
               = nextPhaseDuration(TRUE, currentPhase, trafficData)]_vars
\* a status reply in the green phase of B, D whose duration was computed
\* from the updated samples of both
C37_Witness ==
  /\ currentPhase = PHASE_BD_GREEN
  /\ currentPhaseDuration > MIN_GREEN
  /\ trafficData["B"] = [vehicles |-> 3, heavyVehicles |-> 1]
  /\ \E id \in DOMAIN clients :
       /\ Len(outbox[id]) = 1
       /\ outbox[id][1].origin = "reply"
       /\ outbox[id][1].body = "status"
       /\ outbox[id][1].data.traffic["D"] = [vehicles |-> 3, heavyVehicles |-> 1]

\* C38: in every reachable state the colors are the colors currentPhase
\* stands for, and so are the colors of the snapshot getPhaseInfo() next
\* to its phase.
C38_ColorsAreImageOfPhase ==
  /\ signalState = ColorsOfPhase(currentPhase)
  /\ getPhaseInfo.signalState = ColorsOfPhase(getPhaseInfo.phase)

\* C39: while the phase timer keeps running and the clock keeps
\* advancing, whatever traffic updates arrive, every phase is left some
\* time after it was entered and every route is GREEN again and again.
C39_NoStarvation ==
  /\ \A p \in {PHASE_AC_GREEN, PHASE_AC_YELLOW, PHASE_BD_GREEN, PHASE_BD_YELLOW} :
       (currentPhase = p) ~> (currentPhase # p)
  /\ \A r \in Routes : []<>(signalState[r] = GREEN)
\* B and D are green, for the shortest time, while only A and C have
\* traffic
C39_Witness ==
  /\ currentPhase = PHASE_BD_GREEN
  /\ signalState["B"] = GREEN
  /\ signalState["D"] = GREEN
  /\ currentPhaseDuration = MIN_GREEN
  /\ trafficData["A"] = [vehicles |-> 3, heavyVehicles |-> 1]
  /\ trafficData["C"] = [vehicles |-> 3, heavyVehicles |-> 1]
  /\ trafficData["B"] = [vehicles |-> 0, heavyVehicles |-> 0]
  /\ trafficData["D"] = [vehicles |-> 0, heavyVehicles |-> 0]
  /\ now - phaseStartTime = 1000 * (MIN_GREEN - 1)

\* the ids of the sessions that were registered and have been removed
RemovedIds == {id \in 1..(nextClientId - 1) : id \notin DOMAIN clients}

\* C40: a session that has been removed, by a socket event, a cleanup run
\* or the server's stop, never is in the table again and no step writes a
\* frame to it, neither a fan-out nor a reply; a 'data' event for its id,
\* whatever message it carries, leaves the samples, every session and every
\* subscription set as they are and writes nothing; removing it once more
\* changes nothing; and a step that removes sessions leaves the
\* subscription sets of the sessions that stay as they were.
C40_RemovedSessionIsGone ==
  /\ [][\A id \in RemovedIds :
          id \notin DOMAIN clients' /\ outbox'[id] = <<>>]_vars
  /\ [](\A id \in RemovedIds :
          /\ \A i \in 1..Len(InboundMessages) :
               LET after == handleClientData(HandlerState, id, <<i, NL>>)
               IN  /\ after.trafficData = trafficData
                   /\ after.clients = clients
                   /\ after.outbox = NoFrames
                   /\ ~after.crashed
          /\ \A routes \in SUBSET Routes, hasRoutes \in BOOLEAN :
               broadcastMessage(HandlerState, BroadcastFrame,
                                hasRoutes, routes).outbox[id] = <<>>
          /\ removeClient(clients, id) = clients)
  /\ [](\A id \in DOMAIN clients :
          removeClient(removeClient(clients, id), id) = removeClient(clients, id))
  /\ [][\A j \in DOMAIN clients \cap DOMAIN clients' :
          (DOMAIN clients' # DOMAIN clients \/ LateClientDisconnect)
            => clients'[j].subscribedRoutes = clients[j].subscribedRoutes]_vars
\* session 1 has been removed while session 2 is subscribed
C40_Witness ==
  /\ 1 \in RemovedIds
  /\ 2 \in DOMAIN clients
  /\ clients[2].isActive
  /\ clients[2].subscribedRoutes # {}
  /\ outbox = NoFrames
====
